---------------------------- MODULE Spec2Model ----------------------------
(***************************************************************************)
(* A model of @narraleaf/sound: the Sound session, its Channel tree, the   *)
(* SoundToken objects attached to channels, and the AudioCache.            *)
(*                                                                         *)
(* Volumes and gains are integers in percent (1.0 is 100).  Objects are    *)
(* identified by the order of their construction: channel 0 is the master  *)
(* channel, tokens, cache entries and fetches are numbered from 1.         *)
(* Every await of the source is a step boundary: the synchronous prefix of *)
(* an async method is one action, each resumption another.                 *)
(***************************************************************************)
EXTENDS Integers, Sequences, FiniteSets, TLC

\* ------------------------------------------------------------------ bounds
MaxChannelIds == 2      \* sub-channels ever constructed
MaxTokens == 2          \* SoundTokens ever constructed
MaxCalls == 2           \* play() calls suspended at the same time
MaxLoads == 1           \* fetch/decode operations ever started, per locator of the session
MaxStops == 1           \* times a token's terminal stop is run
MaxRefs == 2            \* references counted on one cache entry
MaxFades == 2           \* FadeTokenImpl objects ever constructed for one token
MaxPlays == 1           \* HTMLAudioElement.play() promises pending on one token
MaxListeners == 3       \* listeners the user registers on one token
MaxClock == 8           \* audioContext.currentTime, in seconds

\* --------------------------------------------------------------- constants
Infinity == 1000                    \* DEFAULT_CHANNEL_OPTIONS.limit: above every size reached
AUTO_LOAD_THRESHOLD == 10485760     \* 10 * 1024 * 1024
Null == -1                          \* null / undefined reference
Destination == -2                   \* audioContext.destination
Detached == -3                      \* a gain node after disconnect()
NaN == -4                           \* parseInt of a non-numeric string

Master == 0
Names == {"bgm", "sfx"}
Paths == {"a.mp3"}
LoadModes == {"stream", "full", "auto"}
PlayModes == {"auto"}
VolumeOptions == {50}
VolumeInputs == {-50, 150}
LimitOptions == {Infinity}
FadeVolumes == {-50, 100}           \* the from and to given to fade()
FadeDurations == {0, 1000}          \* the duration given to fade(), in ms
MaxChannelsOptions == {2, 3}

\* the answers the HEAD request of resolveLoadMode can get
Responses ==
    { [failed |-> TRUE, ok |-> FALSE, contentLength |-> Null] }
    \cup { [failed |-> FALSE, ok |-> FALSE, contentLength |-> Null] }
    \cup { [failed |-> FALSE, ok |-> TRUE, contentLength |-> n] :
             n \in {Null, NaN, 5242880, 10485759, 10485760, 20971520} }

VARIABLES
    isReady,             \* Sound.isReady
    unlockHandler,       \* Sound.unlockHandler is registered
    destroyed,           \* Sound.destroyed
    maxChannels,         \* Sound.options.maxChannels
    registeredChannels,  \* Sound.registeredChannels
    cache,               \* AudioCache.cache: path -> entry (Null: no key)
    loadingPromises,     \* AudioCache.loadingPromises: path -> fetch (Null: no key)
    fetches,             \* doLoad() operations: fetch -> [path, done]
    alive,               \* CachedAudioImpl.alive, by entry
    refCount,            \* CachedAudioImpl.refCount, by entry
    name,                \* Channel.name, by channel
    limit,               \* Channel.options.limit
    parentChannel,       \* Channel.parentChannel
    volume,              \* Channel.volume
    muted,               \* Channel.muted
    removed,             \* Channel.removed
    gain,                \* Channel.gainNode.gain.value
    output,              \* the node Channel.gainNode is connected to
    disconnects,         \* calls of Channel.gainNode.disconnect()
    subChannels,         \* Channel.subChannels, in insertion order
    tokens,              \* Channel.tokens, in insertion order
    soundTokens,         \* the SoundToken objects
    calls,               \* Channel.play() calls suspended at an await
    result,              \* outcome of the last call: "ok" or the error thrown
    events               \* what the last step did to tokens, in order

sessionVars == <<isReady, unlockHandler, destroyed, maxChannels, registeredChannels>>
cacheVars == <<cache, loadingPromises, fetches, alive, refCount>>
channelVars == <<name, limit, parentChannel, volume, muted, removed, gain,
                 output, disconnects, subChannels, tokens>>
vars == <<isReady, unlockHandler, destroyed, maxChannels, registeredChannels,
          cache, loadingPromises, fetches, alive, refCount,
          name, limit, parentChannel, volume, muted, removed, gain,
          output, disconnects, subChannels, tokens,
          soundTokens, calls, result, events>>

\* ----------------------------------------------------------------- helpers
Channels == DOMAIN removed
Tokens == DOMAIN soundTokens
Entries == DOMAIN alive
Fetches == DOMAIN fetches

Min(a, b) == IF a < b THEN a ELSE b
Max(a, b) == IF a > b THEN a ELSE b

\* Math.max(0, Math.min(1, volume))
Clamp(v) == Max(0, Min(100, v))

Range(s) == { s[i] : i \in DOMAIN s }
Contains(s, x) == \E i \in DOMAIN s : s[i] = x
Without(s, x) == SelectSeq(s, LAMBDA y : y # x)
Extend(f, k, v) == [x \in DOMAIN f \cup {k} |-> IF x = k THEN v ELSE f[x]]

\* Array.prototype.indexOf, 1-based; 0 when absent
IndexOf(s, x) ==
    IF Contains(s, x) THEN CHOOSE i \in DOMAIN s : s[i] = x /\ \A j \in 1..(i-1) : s[j] # x
    ELSE 0

\* listeners.splice(listeners.indexOf(listener), 1): index -1 counts from the end
Splice(s, x) ==
    LET i == IF IndexOf(s, x) = 0 THEN Len(s) ELSE IndexOf(s, x)
    IN  [k \in 1..(Len(s) - (IF Len(s) = 0 THEN 0 ELSE 1)) |-> IF k < i THEN s[k] ELSE s[k+1]]

\* Map<string, Channel> as a sequence of [key, val] in insertion order
MapHas(m, k) == \E i \in DOMAIN m : m[i].key = k
MapGet(m, k) == IF MapHas(m, k) THEN (CHOOSE e \in Range(m) : e.key = k).val ELSE Null
MapDelete(m, k) == SelectSeq(m, LAMBDA e : e.key # k)
MapSet(m, k, v) ==
    IF MapHas(m, k) THEN [i \in DOMAIN m |-> IF m[i].key = k THEN [key |-> k, val |-> v] ELSE m[i]]
    ELSE Append(m, [key |-> k, val |-> v])
MapValues(m) == [i \in DOMAIN m |-> m[i].val]


\* ------------------------------------------------- the objects' shared state
\* The objects a call can reach, as one record: the methods below take it and
\* return it changed, so that a method's callees (emit, doStop, remove of the
\* sub-channels) compose in the order the source runs them.
Heap ==
    [ registeredChannels |-> registeredChannels,
      refCount |-> refCount,
      removed |-> removed,
      output |-> output,
      disconnects |-> disconnects,
      subChannels |-> subChannels,
      tokens |-> tokens,
      soundTokens |-> soundTokens,
      events |-> <<>> ]

Commit(H) ==
    /\ registeredChannels' = H.registeredChannels
    /\ refCount' = H.refCount
    /\ removed' = H.removed
    /\ output' = H.output
    /\ disconnects' = H.disconnects
    /\ subChannels' = H.subChannels
    /\ tokens' = H.tokens
    /\ soundTokens' = H.soundTokens
    /\ events' = H.events

\* ---------------------------------------------------------- CachedAudioImpl
\* releaseRef(): if (this.refCount > 0) this.refCount--
releaseRef(H, e) ==
    IF H.refCount[e] > 0 THEN [H EXCEPT !.refCount[e] = @ - 1] ELSE H

\* ------------------------------------------------------ token event listeners
\* The two listeners the library itself registers on a token.
\* createToken: const releaseRef = () => { if (!refReleased) { ... } }
ReleaseRefListener == [cb |-> "releaseRef", chan |-> Null, once |-> TRUE]
\* Channel.play: token.once(ev, () => this.tokens.delete(token))
DeleteListener(c) == [cb |-> "delete", chan |-> c, once |-> TRUE]

\* a listener of the user, registered with on() or once() for event ev: its
\* callback id is logged when it runs and may call off(ev, callback `off`)
UserListener(ev, id, once, off) ==
    [cb |-> "user", chan |-> Null, once |-> once, ev |-> ev, id |-> id, off |-> off]

\* AudioSourceController.off: findIndex on the callback, then splice
off(listeners, id) ==
    SelectSeq(listeners, LAMBDA l : ~(l.cb = "user" /\ l.id = id))

\* the callback of a listener of the user
RunUserListener(H, t, l) ==
    LET H1 == [H EXCEPT !.events = Append(@, <<"called", l.id>>)] IN
    IF l.off = 0 THEN H1
    ELSE [H1 EXCEPT !.soundTokens[t].listeners[l.ev] = off(@, l.off)]

\* faulty variant: releaseRef without its refReleased guard
RunListenerUnguarded(H, t, l) ==
    IF l.cb = "releaseRef"
    THEN releaseRef([H EXCEPT !.soundTokens[t].refReleased = TRUE],
                    H.soundTokens[t].cachedAudioRef)
    ELSE IF l.cb = "delete"
    THEN [H EXCEPT !.tokens[l.chan] = Without(@, t)]
    ELSE RunUserListener(H, t, l)

RunListener(H, t, l) ==
    IF l.cb = "releaseRef"
    THEN IF H.soundTokens[t].refReleased THEN H
         ELSE releaseRef([H EXCEPT !.soundTokens[t].refReleased = TRUE],
                         H.soundTokens[t].cachedAudioRef)
    ELSE IF l.cb = "delete"
    THEN [H EXCEPT !.tokens[l.chan] = Without(@, t)]
    ELSE RunUserListener(H, t, l)

\* AudioSourceController.emit: the listeners of a snapshot are called in order,
\* a once listener is spliced out of the live list after its call
RECURSIVE EmitFrom(_, _, _, _, _)
EmitFrom(H, t, ev, snapshot, i) ==
    IF i > Len(snapshot) THEN H
    ELSE LET l == snapshot[i]
             H1 == RunListener(H, t, l)
             H2 == IF l.once
                   THEN [H1 EXCEPT !.soundTokens[t].listeners[ev] = Splice(@, l)]
                   ELSE H1
         IN  EmitFrom(H2, t, ev, snapshot, i + 1)

emit(H, t, ev) == EmitFrom(H, t, ev, H.soundTokens[t].listeners[ev], 1)

\* ----------------------------------------------------------------- SoundToken
NoListeners == [ended |-> <<>>, stop |-> <<>>]

\* new SoundToken(...) as createToken builds it: playing, with its source, and
\* releaseRef registered when it plays a cache entry
NewToken(e) ==
    [ isPlaying |-> TRUE,
      isPaused |-> FALSE,
      isMuted |-> FALSE,
      volume |-> 100,
      gain |-> 100,
      ramp |-> 0,
      currentFade |-> 0,
      fades |-> <<>>,
      kind |-> IF e = Null THEN "element" ELSE "buffer",
      plays |-> 0,
      endTimer |-> FALSE,
      hasSource |-> TRUE,
      node |-> "live",
      rate |-> 1000,
      currentTime |-> 0,
      startTime |-> 0,
      pauseTime |-> 0,
      position |-> 0,
      cachedAudioRef |-> e,
      refReleased |-> FALSE,
      stopped |-> 0,
      ended |-> FALSE,
      listeners |-> IF e = Null THEN NoListeners
                    ELSE [ended |-> <<ReleaseRefListener>>, stop |-> <<ReleaseRefListener>>] ]

\* new SoundToken(..., {volume, rate}): this.volume = options.volume ?? 1,
\* this.rate = options.rate ?? 1, gain.value = this.volume; rates in thousandths
NewTokenWith(e, vol, rate) ==
    [NewToken(e) EXCEPT !.volume = vol, !.gain = vol, !.rate = rate]

\* SoundToken.setRate: rate = Math.max(0.001, rate)
setRate(H, t, rate) == [H EXCEPT !.soundTokens[t].rate = Max(1, rate)]

\* SoundToken.doStop
doStop(H, t) ==
    LET H1 == [H EXCEPT !.soundTokens[t].isPlaying = FALSE,
                        !.soundTokens[t].isPaused = FALSE]
        H2 == emit(H1, t, "stop")
    IN  [H2 EXCEPT !.soundTokens[t].stopped = @ + 1,
                   !.soundTokens[t].hasSource = FALSE,
                   !.soundTokens[t].node = "ended",
                   !.soundTokens[t].listeners = NoListeners,
                   !.events = Append(@, <<"stop", t>>)]

\* SoundToken.stop() without a fade duration
stop(H, t) == doStop(H, t)

\* -------------------------------------------------------------------- Channel
\* for (const token of this.tokens) token.stop(): a Set is iterated in insertion
\* order, and an element deleted before its turn is not visited
RECURSIVE StopTokens(_, _, _)
StopTokens(H, c, visited) ==
    LET rest == SelectSeq(H.tokens[c], LAMBDA t : t \notin visited)
    IN  IF rest = <<>> THEN H
        ELSE StopTokens(stop(H, rest[1]), c, visited \cup {rest[1]})

\* Channel.remove
RECURSIVE remove(_, _)
RECURSIVE RemoveEach(_, _, _)
RemoveEach(H, subs, i) ==
    IF i > Len(subs) THEN H ELSE RemoveEach(remove(H, subs[i]), subs, i + 1)

remove(H, c) ==
    IF H.removed[c] THEN H
    ELSE LET H1 == [H EXCEPT !.removed[c] = TRUE, !.events = Append(@, <<"remove", c>>)]
             H2 == [StopTokens(H1, c, {}) EXCEPT !.tokens[c] = <<>>]
             subChannelsToRemove == MapValues(H2.subChannels[c])
             H3 == RemoveEach([H2 EXCEPT !.subChannels[c] = <<>>], subChannelsToRemove, 1)
             H4 == [H3 EXCEPT !.output[c] = Detached,
                              !.disconnects[c] = @ + 1,
                              !.registeredChannels = @ \ {c}]
         IN  IF parentChannel[c] = Null THEN H4
             ELSE [H4 EXCEPT !.subChannels[parentChannel[c]] = MapDelete(@, name[c])]


\* ----------------------------------------------------------------- the calls
\* everything but the outcome of the last call
state == <<isReady, unlockHandler, destroyed, maxChannels, registeredChannels,
           cache, loadingPromises, fetches, alive, refCount,
           name, limit, parentChannel, volume, muted, removed, gain,
           output, disconnects, subChannels, tokens, soundTokens, calls>>

\* a call that throws (or rejects) before it changed anything
Throw(e) == result' = e /\ events' = <<>> /\ UNCHANGED state

\* a call that returns without changing anything
Return == result' = "ok" /\ events' = <<>> /\ UNCHANGED state

NextChannelId == Cardinality(Channels)
NextTokenId == Len(soundTokens) + 1

\* Sound.waitForUnlock: the unlock listener, run by a user gesture
Unlock ==
    /\ unlockHandler
    /\ unlockHandler' = FALSE
    /\ isReady' = (IF destroyed THEN isReady ELSE TRUE)
    /\ result' = "ok" /\ events' = <<>>
    /\ UNCHANGED <<destroyed, maxChannels, registeredChannels, cacheVars, channelVars,
                   soundTokens, calls>>

\* faulty variant: the ceiling is compared with > instead of >=
checkChannelLimitExclusive == Cardinality(registeredChannels) + 1 > maxChannels

\* Sound.checkChannelLimit: whether it throws
checkChannelLimit == Cardinality(registeredChannels) + 1 >= maxChannels

\* faulty variant: the destroyed flag is not looked at
ensureNotDestroyedNever == TRUE

\* Sound.ensureNotDestroyed, Sound.ensureReady: whether they return
ensureNotDestroyed == ~destroyed
ensureReady == isReady

\* faulty variant: the removed flag is not looked at
ensureNotRemovedNever(c) == TRUE

\* Channel.ensureNotRemoved: whether it returns
ensureNotRemoved(c) == ~removed[c]

\* faulty variant: the name is not looked up
hasSubChannelNever(c, nm) == FALSE

\* this.subChannels.has(name)
hasSubChannel(c, nm) == MapHas(subChannels[c], nm)

\* Channel.createChannel, with the Channel constructor and connectToParent
ChannelCreateChannel(c, nm, vol, lim) ==
    IF ~ensureNotRemoved(c) THEN Throw("removed")
    ELSE IF hasSubChannel(c, nm) THEN Throw("exists")
    ELSE IF checkChannelLimit THEN Throw("limit")
    ELSE LET sub == NextChannelId IN
         /\ sub <= MaxChannelIds
         /\ name' = Extend(name, sub, nm)
         /\ limit' = Extend(limit, sub, lim)
         /\ parentChannel' = Extend(parentChannel, sub, c)
         /\ volume' = Extend(volume, sub, vol)
         /\ muted' = Extend(muted, sub, FALSE)
         /\ removed' = Extend(removed, sub, FALSE)
         /\ gain' = Extend(gain, sub, vol)
         /\ output' = Extend(output, sub, c)
         /\ disconnects' = Extend(disconnects, sub, 0)
         /\ subChannels' = Extend([subChannels EXCEPT ![c] = MapSet(@, nm, sub)], sub, <<>>)
         /\ tokens' = Extend(tokens, sub, <<>>)
         /\ registeredChannels' = registeredChannels \cup {sub}
         /\ result' = "ok" /\ events' = <<>>
         /\ UNCHANGED <<isReady, unlockHandler, destroyed, maxChannels, cacheVars, soundTokens, calls>>

\* Channel.getChannel
ChannelGetChannel(c, nm) == IF ~ensureNotRemoved(c) THEN Throw("removed") ELSE Return

\* Channel.getChannels
ChannelGetChannels(c) == IF ~ensureNotRemoved(c) THEN Throw("removed") ELSE Return

\* faulty variant: the tokens of the sub-channels come before the channel's own
RECURSIVE getTokensChildrenFirst(_)
RECURSIVE ChildrenFirstOf(_, _)
ChildrenFirstOf(subs, i) ==
    IF i > Len(subs) THEN <<>>
    ELSE getTokensChildrenFirst(subs[i]) \o ChildrenFirstOf(subs, i + 1)

getTokensChildrenFirst(c) == ChildrenFirstOf(MapValues(subChannels[c]), 1) \o tokens[c]

\* Channel.getTokens: every sub-channel of the map is asked in turn
RECURSIVE getTokens(_)
RECURSIVE GetTokensOf(_, _)
GetTokensOf(subs, i) ==
    IF i > Len(subs) THEN <<>> ELSE getTokens(subs[i]) \o GetTokensOf(subs, i + 1)

getTokens(c) == tokens[c] \o GetTokensOf(MapValues(subChannels[c]), 1)

ChannelGetTokens(c) == IF ~ensureNotRemoved(c) THEN Throw("removed") ELSE Return

\* faulty variant: the gain is written whether the channel is muted or not
setVolumeLoud(c, v) ==
    /\ volume' = [volume EXCEPT ![c] = Clamp(v)]
    /\ gain' = [gain EXCEPT ![c] = Clamp(v)]

\* Channel.setVolume
setVolume(c, v) ==
    /\ volume' = [volume EXCEPT ![c] = Clamp(v)]
    /\ gain' = IF muted[c] THEN gain ELSE [gain EXCEPT ![c] = Clamp(v)]

ChannelSetVolume(c, v) ==
    IF ~ensureNotRemoved(c) THEN Throw("removed")
    ELSE /\ setVolume(c, v)
         /\ result' = "ok" /\ events' = <<>>
         /\ UNCHANGED <<sessionVars, cacheVars, name, limit, parentChannel, muted, removed,
                        output, disconnects, subChannels, tokens, soundTokens, calls>>

\* faulty variant: the flag is set and the gain left as it is
muteFlagOnly(c, m) ==
    /\ muted' = [muted EXCEPT ![c] = m]
    /\ gain' = gain

\* Channel.mute(muted?)
mute(c, m) ==
    /\ muted' = [muted EXCEPT ![c] = m]
    /\ gain' = [gain EXCEPT ![c] = IF m THEN 0 ELSE volume[c]]

ChannelMute(c, m) ==
    IF ~ensureNotRemoved(c) THEN Throw("removed")
    ELSE /\ mute(c, m)
         /\ result' = "ok" /\ events' = <<>>
         /\ UNCHANGED <<sessionVars, cacheVars, name, limit, parentChannel, volume, removed,
                        output, disconnects, subChannels, tokens, soundTokens, calls>>

\* Channel.unmute
ChannelUnmute(c) == ChannelMute(c, FALSE)

\* Channel.remove
ChannelRemove(c) ==
    /\ Commit(remove(Heap, c))
    /\ result' = "ok"
    /\ UNCHANGED <<isReady, unlockHandler, destroyed, maxChannels, cache, loadingPromises, fetches, alive,
                   name, limit, parentChannel, volume, muted, gain, calls>>


\* ------------------------------------------------------------- AudioCache
\* faulty variant: the reference count is not looked at
CachedAudioUnloadAlways(e) ==
    /\ alive' = [alive EXCEPT ![e] = FALSE]
    /\ result' = "ok" /\ events' = <<>>
    /\ UNCHANGED <<sessionVars, cache, loadingPromises, fetches, refCount, channelVars,
                   soundTokens, calls>>

\* CachedAudioImpl.unload
CachedAudioUnload(e) ==
    /\ alive' = (IF refCount[e] > 0 THEN alive ELSE [alive EXCEPT ![e] = FALSE])
    /\ result' = "ok" /\ events' = <<>>
    /\ UNCHANGED <<sessionVars, cache, loadingPromises, fetches, refCount, channelVars,
                   soundTokens, calls>>

\* CachedAudioImpl.forceUnload
CachedAudioForceUnload(e) ==
    /\ alive' = [alive EXCEPT ![e] = FALSE]
    /\ refCount' = [refCount EXCEPT ![e] = 0]
    /\ result' = "ok" /\ events' = <<>>
    /\ UNCHANGED <<sessionVars, cache, loadingPromises, fetches, channelVars,
                   soundTokens, calls>>

\* AudioCache.load up to its first await: the stored live entry, the fetch in
\* flight for the path, or a fetch this call starts
CacheHit(p) == cache[p] # Null /\ alive[cache[p]]

\* faulty variant: a load in flight is never joined
CacheJoinNever(p) == FALSE

CacheJoin(p) == ~CacheHit(p) /\ loadingPromises[p] # Null
CacheMiss(p) == ~CacheHit(p) /\ loadingPromises[p] = Null

StartFetch(p) ==
    /\ Len(fetches) < MaxLoads * Cardinality(DOMAIN cache)
    /\ fetches' = Append(fetches, [path |-> p, done |-> FALSE])
    /\ loadingPromises' = [loadingPromises EXCEPT ![p] = Len(fetches) + 1]

\* AudioCache.clear
clear(H) ==
    [H EXCEPT !.refCount = [e \in DOMAIN @ |-> IF \E p \in DOMAIN cache : cache[p] = e THEN 0 ELSE @[e]]]

ClearedAlive == [e \in Entries |-> IF \E p \in DOMAIN cache : cache[p] = e THEN FALSE ELSE alive[e]]

\* ------------------------------------------------------------ Sound.createToken
\* faulty variant: small files are streamed, large files loaded in full
resolveLoadModeAsDocumented(mode, resp) ==
    IF mode = "stream" \/ mode = "full" THEN mode
    ELSE IF resp.failed \/ ~resp.ok \/ resp.contentLength \in {Null, NaN} THEN "stream"
    ELSE IF resp.contentLength < AUTO_LOAD_THRESHOLD THEN "stream" ELSE "full"

\* faulty variant: a file of exactly the threshold size is loaded in full
resolveLoadModeInclusive(mode, resp) ==
    IF mode = "stream" \/ mode = "full" THEN mode
    ELSE IF resp.failed \/ ~resp.ok \/ resp.contentLength \in {Null, NaN} THEN "stream"
    ELSE IF resp.contentLength <= AUTO_LOAD_THRESHOLD THEN "full" ELSE "stream"

\* Sound.resolveLoadMode, given the answer to its HEAD request
resolveLoadMode(mode, resp) ==
    IF mode = "stream" \/ mode = "full" THEN mode
    ELSE IF resp.failed THEN "stream"
    ELSE IF ~resp.ok THEN "stream"
    ELSE IF resp.contentLength = Null THEN "stream"
    ELSE IF resp.contentLength = NaN THEN "stream"
    ELSE IF resp.contentLength < AUTO_LOAD_THRESHOLD THEN "full" ELSE "stream"

\* a play() call suspended at an await
\*   pc "resolve": in createToken, awaiting resolveLoadMode
\*   pc "load":    in createToken, awaiting audioCache.load on fetch `wait`
\*   pc "acquire": in createToken, audioCache.load has resolved to `entry`
\*   pc "attach":  in Channel.play, createToken has returned `token`
\* asked is options.load, load the mode resolveLoadMode has answered
Call(c, p, mode, pc, f, e, t) ==
    [chan |-> c, path |-> p, asked |-> mode, load |-> mode, pc |-> pc, wait |-> f, entry |-> e,
     token |-> t]

RemoveAt(s, i) == [k \in 1..(Len(s) - 1) |-> IF k < i THEN s[k] ELSE s[k + 1]]

\* the tokens play() has resolved to: the user holds these
Returned(t) == \A i \in DOMAIN calls : calls[i].token # t

\* new SoundToken(...) in createToken, with the releaseRef listeners
CreateToken(H, e) ==
    [H EXCEPT !.soundTokens = Append(@, NewToken(e)),
              !.events = Append(@, <<"create", Len(H.soundTokens) + 1>>)]

\* cachedAudioRef.addRef?.()
addRef(H, e) == [H EXCEPT !.refCount[e] = @ + 1, !.events = Append(@, <<"addRef", e>>)]

\* faulty variant: the token attached last is the one stopped
EvictNewest(H, c) ==
    IF Len(H.tokens[c]) >= limit[c] /\ H.tokens[c] # <<>>
    THEN stop(H, H.tokens[c][Len(H.tokens[c])])
    ELSE H

\* Channel.play: the token-limit check
Evict(H, c) ==
    IF Len(H.tokens[c]) >= limit[c] /\ H.tokens[c] # <<>>
    THEN stop(H, H.tokens[c][1])
    ELSE H

\* the heap as a play() call on channel c finds it
Playing(c) == [Heap EXCEPT !.events = <<<<"play", c>>>>]

\* Channel.play(path, {load: mode}) up to its first await
ChannelPlay(c, p, mode) ==
    IF ~ensureNotRemoved(c) THEN Throw("removed")
    ELSE LET H == Evict(Playing(c), c) IN
         IF ~ensureNotDestroyed \/ ~ensureReady
         THEN /\ Commit(H)
              /\ result' = (IF ~ensureNotDestroyed THEN "destroyed" ELSE "notReady")
              /\ UNCHANGED <<isReady, unlockHandler, destroyed, maxChannels, cache, loadingPromises, fetches,
                             alive, name, limit, parentChannel, volume, muted, gain, calls>>
         ELSE /\ Len(calls) < MaxCalls
              /\ Commit(H)
              /\ calls' = Append(calls, Call(c, p, mode, "resolve", Null, Null, Null))
              /\ result' = "ok"
              /\ UNCHANGED <<isReady, unlockHandler, destroyed, maxChannels, cache, loadingPromises, fetches,
                             alive, name, limit, parentChannel, volume, muted, gain>>

\* Channel.play(cachedAudio) up to its first await: createToken builds the token
\* before it returns
ChannelPlayCached(c, e) ==
    IF ~ensureNotRemoved(c) THEN Throw("removed")
    ELSE LET H == Evict(Playing(c), c) IN
         IF ~ensureNotDestroyed \/ ~ensureReady
         THEN /\ Commit(H)
              /\ result' = (IF ~ensureNotDestroyed THEN "destroyed" ELSE "notReady")
              /\ UNCHANGED <<isReady, unlockHandler, destroyed, maxChannels, cache, loadingPromises, fetches,
                             alive, name, limit, parentChannel, volume, muted, gain, calls>>
         ELSE IF ~alive[e]
         THEN /\ refCount[e] < MaxRefs
              /\ Commit(addRef(H, e))
              /\ result' = "dead"
              /\ UNCHANGED <<isReady, unlockHandler, destroyed, maxChannels, cache, loadingPromises, fetches,
                             alive, name, limit, parentChannel, volume, muted, gain, calls>>
         ELSE /\ Len(calls) < MaxCalls
              /\ NextTokenId <= MaxTokens
              /\ Commit(CreateToken(addRef(H, e), e))
              /\ calls' = Append(calls, Call(c, "", "full", "attach", Null, e, NextTokenId))
              /\ result' = "ok"
              /\ UNCHANGED <<isReady, unlockHandler, destroyed, maxChannels, cache, loadingPromises, fetches,
                             alive, name, limit, parentChannel, volume, muted, gain>>

\* createToken resumes with the load mode: a stream source and its token, or
\* audioCache.load up to its first await
PlayResolve(i, resp) ==
    LET call == calls[i]
        p == call.path
    IN
    /\ call.pc = "resolve"
    /\ result' = "ok"
    /\ UNCHANGED <<isReady, unlockHandler, destroyed, maxChannels, cache, alive,
                   name, limit, parentChannel, volume, muted, gain>>
    /\ IF resolveLoadMode(call.load, resp) = "stream"
       THEN /\ NextTokenId <= MaxTokens
            /\ Commit(CreateToken(Heap, Null))
            /\ calls' = [calls EXCEPT ![i].pc = "attach", ![i].load = "stream",
                                      ![i].token = NextTokenId]
            /\ UNCHANGED <<loadingPromises, fetches>>
       ELSE /\ Commit(Heap)
            /\ IF CacheHit(p)
               THEN /\ calls' = [calls EXCEPT ![i].pc = "acquire", ![i].load = "full",
                                              ![i].entry = cache[p]]
                    /\ UNCHANGED <<loadingPromises, fetches>>
               ELSE IF CacheJoin(p)
               THEN /\ calls' = [calls EXCEPT ![i].pc = "load", ![i].load = "full",
                                              ![i].wait = loadingPromises[p]]
                    /\ UNCHANGED <<loadingPromises, fetches>>
               ELSE /\ StartFetch(p)
                    /\ calls' = [calls EXCEPT ![i].pc = "load", ![i].load = "full",
                                              ![i].wait = Len(fetches) + 1]

\* faulty variant: the marker of a failed load is left in place
markerAfterLoadKept(p, ok) == IF ok THEN Null ELSE loadingPromises[p]

\* finally { this.loadingPromises.delete(path) }
markerAfterLoad(p, ok) == Null

\* doLoad settles: AudioCache.load stores the entry (or not) and clears the
\* in-flight marker; every call awaiting the fetch gets the entry or the error:
\* a load() call returns with it, a play() call goes on in createToken
FetchDone(f, ok) ==
    LET p == fetches[f].path
        e == Len(alive) + 1
        waits(k) == k.pc = "load" /\ k.wait = f
        loaders == SelectSeq(calls, LAMBDA k : waits(k) /\ k.chan = Null)
        others == SelectSeq(calls, LAMBDA k : ~(waits(k) /\ k.chan = Null))
    IN
    /\ ~fetches[f].done
    /\ fetches' = [fetches EXCEPT ![f].done = TRUE]
    /\ loadingPromises' = [loadingPromises EXCEPT ![p] = markerAfterLoad(p, ok)]
    /\ events' = [i \in DOMAIN loaders |->
                    IF ok THEN <<"loaded", e>> ELSE <<"rejected", f>>]
    /\ UNCHANGED <<sessionVars, channelVars, soundTokens>>
    /\ IF ok
       THEN /\ alive' = Append(alive, TRUE)
            /\ refCount' = Append(refCount, 0)
            /\ cache' = [cache EXCEPT ![p] = e]
            /\ calls' = [i \in DOMAIN others |->
                           IF waits(others[i])
                           THEN [others[i] EXCEPT !.pc = "acquire", !.entry = e]
                           ELSE others[i]]
            /\ result' = "ok"
       ELSE /\ calls' = SelectSeq(calls, LAMBDA k : ~(k.pc = "load" /\ k.wait = f))
            /\ result' = "loadFailure"
            /\ UNCHANGED <<alive, refCount, cache>>

\* createToken resumes with the cache entry: addRef, raw(), the token
PlayAcquire(i) ==
    LET call == calls[i] IN
    /\ call.pc = "acquire"
    /\ UNCHANGED <<isReady, unlockHandler, destroyed, maxChannels, cache, loadingPromises, fetches, alive,
                   name, limit, parentChannel, volume, muted, gain>>
    /\ IF ~alive[call.entry]
       THEN /\ refCount[call.entry] < MaxRefs
            /\ Commit(addRef(Heap, call.entry))
            /\ calls' = RemoveAt(calls, i)
            /\ result' = "dead"
       ELSE /\ NextTokenId <= MaxTokens
            /\ Commit(CreateToken(addRef(Heap, call.entry), call.entry))
            /\ calls' = [calls EXCEPT ![i].pc = "attach", ![i].token = NextTokenId]
            /\ result' = "ok"

\* Channel.play resumes with the token: this.tokens.add(token) and the two
\* once listeners
Attach(H, c, t) ==
    [H EXCEPT !.tokens[c] = IF Contains(@, t) THEN @ ELSE Append(@, t),
              !.soundTokens[t].listeners.ended = Append(@, DeleteListener(c)),
              !.soundTokens[t].listeners.stop = Append(@, DeleteListener(c))]

PlayAttach(i) ==
    LET call == calls[i] IN
    /\ call.pc = "attach"
    /\ Commit(Attach(Heap, call.chan, call.token))
    /\ calls' = RemoveAt(calls, i)
    /\ result' = "ok"
    /\ UNCHANGED <<isReady, unlockHandler, destroyed, maxChannels, cache, loadingPromises, fetches, alive,
                   name, limit, parentChannel, volume, muted, gain>>

\* SoundToken.stop() called by the user
TokenStop(t) ==
    /\ Returned(t)
    /\ soundTokens[t].stopped < MaxStops
    /\ Commit(stop(Heap, t))
    /\ result' = "ok"
    /\ UNCHANGED <<isReady, unlockHandler, destroyed, maxChannels, cache, loadingPromises, fetches, alive,
                   name, limit, parentChannel, volume, muted, gain, calls>>

\* the source's 'ended' event: AudioSourceController.setupEventListeners' handler
SourceEnded(t) ==
    /\ Returned(t)
    /\ soundTokens[t].hasSource /\ ~soundTokens[t].ended
    /\ soundTokens[t].node = "live"
    /\ Commit([emit(Heap, t, "ended") EXCEPT !.soundTokens[t].ended = TRUE,
                                             !.soundTokens[t].node = "ended",
                                             !.events = Append(@, <<"ended", t>>)])
    /\ result' = "ok"
    /\ UNCHANGED <<isReady, unlockHandler, destroyed, maxChannels, cache, loadingPromises, fetches, alive,
                   name, limit, parentChannel, volume, muted, gain, calls>>

\* the 'ended' event of a buffer source node that pause() has stopped: the
\* handler of setupEventListeners is on the node until refreshSource or
\* destroy takes it off
StoppedSourceEnded(t) ==
    /\ Returned(t)
    /\ soundTokens[t].node = "stopped"
    /\ Commit([emit(Heap, t, "ended") EXCEPT !.soundTokens[t].ended = TRUE,
                                             !.soundTokens[t].node = "ended",
                                             !.events = Append(@, <<"ended", t>>)])
    /\ result' = "ok"
    /\ UNCHANGED <<isReady, unlockHandler, destroyed, maxChannels, cache, loadingPromises, fetches, alive,
                   name, limit, parentChannel, volume, muted, gain, calls>>

\* ---------------------------------------------------- SoundToken, FadeTokenImpl
Fades(H, t) == DOMAIN H.soundTokens[t].fades

\* neither finished nor cancelled: FadeTokenImpl.isFinished, isCancelled
IsRunning(fd) == ~fd.finishedInternal /\ ~fd.cancelled

\* new FadeTokenImpl(token, endVolume); timer is the setTimeout fade() arms for
\* it ("none" for a duration of 0, then "armed", then "fired"), then the
\* continuation stop({fadeDuration}) chains on its promise
NewFade(to, armed) ==
    [ endVolume |-> to,
      cancelled |-> FALSE,
      finishedInternal |-> FALSE,
      resolved |-> FALSE,
      timer |-> IF armed THEN "armed" ELSE "none",
      then |-> "none" ]

\* faulty variant: a cancelled fade is marked finished
fadeCancelFinishes(H, t, f) ==
    LET fd == H.soundTokens[t].fades[f] IN
    IF fd.cancelled \/ fd.finishedInternal THEN H
    ELSE [H EXCEPT !.soundTokens[t].fades[f].finishedInternal = TRUE,
                   !.soundTokens[t].fades[f].resolved = TRUE]

\* FadeTokenImpl.cancel
fadeCancel(H, t, f) ==
    LET fd == H.soundTokens[t].fades[f] IN
    IF fd.cancelled \/ fd.finishedInternal THEN H
    ELSE [H EXCEPT !.soundTokens[t].fades[f].cancelled = TRUE,
                   !.soundTokens[t].fades[f].resolved = TRUE]

\* faulty variant: nothing is cancelled
cancelCurrentSkip(H, t) == H

\* if (this.currentFade) this.currentFade.cancel()
cancelCurrent(H, t) ==
    IF H.soundTokens[t].currentFade # 0
    THEN fadeCancel(H, t, H.soundTokens[t].currentFade)
    ELSE H

\* faulty variant: the running fade is left alone
tokenSetVolumeKeepFade(H, t, v) ==
    LET tok == H.soundTokens[t] IN
    [H EXCEPT !.soundTokens[t].volume = Clamp(v),
              !.soundTokens[t].gain = IF tok.isMuted THEN @ ELSE Clamp(v),
              !.soundTokens[t].ramp = IF tok.isMuted THEN @ ELSE 0]

\* SoundToken.setVolume
tokenSetVolume(H, t, v) ==
    LET H1 == [cancelCurrent(H, t) EXCEPT !.soundTokens[t].currentFade = 0]
        tok == H1.soundTokens[t]
    IN  [H1 EXCEPT !.soundTokens[t].volume = Clamp(v),
                   !.soundTokens[t].gain = IF tok.isMuted THEN @ ELSE Clamp(v),
                   !.soundTokens[t].ramp = IF tok.isMuted THEN @ ELSE 0]

\* FadeTokenImpl.finish
fadeFinish(H, t, f) ==
    LET fd == H.soundTokens[t].fades[f] IN
    IF fd.finishedInternal THEN H
    ELSE LET H1 == [H EXCEPT !.soundTokens[t].fades[f].finishedInternal = TRUE]
             H2 == tokenSetVolume(H1, t, fd.endVolume)
         IN  [H2 EXCEPT !.soundTokens[t].fades[f].resolved = TRUE]

\* faulty variant: the running fade is cancelled and the volume left where it was
tokenMuteCancels(H, t, m) ==
    LET H1 == [cancelCurrent(H, t) EXCEPT !.soundTokens[t].currentFade = 0] IN
    [H1 EXCEPT !.soundTokens[t].isMuted = m,
               !.soundTokens[t].ramp = 0,
               !.soundTokens[t].gain = IF m THEN 0 ELSE H1.soundTokens[t].volume]

\* SoundToken.mute
tokenMute(H, t, m) ==
    LET tok == H.soundTokens[t]
        f == tok.currentFade
        H1 == [H EXCEPT !.soundTokens[t].isMuted = m, !.soundTokens[t].ramp = 0]
    IN  IF f # 0 /\ IsRunning(tok.fades[f])
        THEN LET targetVolume == tok.fades[f].endVolume
                 H2 == [H1 EXCEPT !.soundTokens[t].volume = targetVolume,
                                  !.soundTokens[t].gain = IF m THEN 0 ELSE targetVolume]
             IN  [fadeFinish(H2, t, f) EXCEPT !.soundTokens[t].currentFade = 0]
        ELSE [H1 EXCEPT !.soundTokens[t].gain = IF m THEN 0 ELSE tok.volume]

\* faulty variant: the fade of duration 0 is handed back unfinished
fadeImmediateUnfinished(H, t, to) ==
    [tokenSetVolume(H, t, to) EXCEPT !.soundTokens[t].fades = Append(@, NewFade(to, FALSE))]

\* SoundToken.fade, the duration === 0 branch
fadeImmediate(H, t, to) ==
    LET H1 == tokenSetVolume(H, t, to)
        H2 == [H1 EXCEPT !.soundTokens[t].fades = Append(@, NewFade(to, FALSE))]
    IN  fadeFinish(H2, t, Len(H2.soundTokens[t].fades))

\* faulty variant: the stored volume is left at its value from before the fade
fadeStartKeepsVolume(H, t, from, to) ==
    LET f == Len(H.soundTokens[t].fades) + 1 IN
    [H EXCEPT !.soundTokens[t].gain = IF H.soundTokens[t].isMuted THEN @ ELSE from,
              !.soundTokens[t].fades = Append(@, NewFade(to, TRUE)),
              !.soundTokens[t].currentFade = f,
              !.soundTokens[t].ramp = f]

\* SoundToken.fade, the duration > 0 branch: the volume is set to from, the ramp
\* is scheduled on the gain whether muted or not, the timer is armed
fadeStart(H, t, from, to) ==
    LET f == Len(H.soundTokens[t].fades) + 1 IN
    [H EXCEPT !.soundTokens[t].volume = from,
              !.soundTokens[t].gain = IF H.soundTokens[t].isMuted THEN @ ELSE from,
              !.soundTokens[t].fades = Append(@, NewFade(to, TRUE)),
              !.soundTokens[t].currentFade = f,
              !.soundTokens[t].ramp = f]

\* SoundToken.fade
fade(H, t, from, to, duration) ==
    LET H1 == cancelCurrent(H, t) IN
    IF duration = 0 THEN fadeImmediate(H1, t, Clamp(to))
    ELSE fadeStart(H1, t, Clamp(from), Clamp(to))

\* faulty variant: the token is stopped before the fade-out has run
stopFadeAtOnce(H, t, duration) == doStop(H, t)

\* SoundToken.stop({fadeDuration}) with fadeDuration > 0:
\* this.fade(this.getVolume(), 0, fadeDuration).finished.then(() => doStop())
stopFade(H, t, duration) ==
    LET H1 == fade(H, t, H.soundTokens[t].volume, 0, duration) IN
    [H1 EXCEPT !.soundTokens[t].fades[Len(H1.soundTokens[t].fades)].then = "pending"]

\* SoundToken.pause: an element is paused, a buffer source node is stopped
\* (AudioBufferSourceNode.stop()), its 'ended' listener still attached; a node
\* is "live", "stopped" with its 'ended' event to come, or "ended";
\* currentTime is audioContext.currentTime, position the offset in the buffer
\* the source has reached or, while paused, will be restarted at
pause(H, t) ==
    LET tok == H.soundTokens[t] IN
    IF ~tok.isPlaying \/ tok.isPaused THEN H
    ELSE [H EXCEPT !.soundTokens[t].node =
                       IF tok.hasSource /\ tok.kind = "buffer" /\ @ = "live"
                       THEN "stopped" ELSE @,
                   !.soundTokens[t].pauseTime =
                       IF tok.hasSource /\ tok.kind = "buffer"
                       THEN tok.currentTime - tok.startTime ELSE @,
                   !.soundTokens[t].isPlaying = FALSE,
                   !.soundTokens[t].isPaused = TRUE,
                   !.events = Append(@, <<"pause", t>>)]

\* SoundToken.resume: an element's play() promise stays pending, a buffer gets
\* a fresh source node
resume(H, t) ==
    LET tok == H.soundTokens[t] IN
    IF ~tok.isPaused THEN H
    ELSE [H EXCEPT !.soundTokens[t].plays =
                       IF tok.hasSource /\ tok.kind = "element" THEN @ + 1 ELSE @,
                   !.soundTokens[t].node =
                       IF tok.hasSource /\ tok.kind = "buffer" THEN "live" ELSE @,
                   !.soundTokens[t].startTime =
                       IF tok.hasSource /\ tok.kind = "buffer"
                       THEN tok.currentTime - tok.pauseTime ELSE @,
                   !.soundTokens[t].position =
                       IF tok.hasSource /\ tok.kind = "buffer" THEN tok.pauseTime ELSE @,
                   !.soundTokens[t].isPlaying = TRUE,
                   !.soundTokens[t].isPaused = FALSE,
                   !.events = Append(@, <<"resume", t>>)]

\* SoundToken.seek: nothing without a source
seek(H, t) ==
    IF ~H.soundTokens[t].hasSource THEN H
    ELSE [H EXCEPT !.events = Append(@, <<"seek", t>>)]

\* SoundToken.getCurrentTime of a buffer-backed token
getCurrentTime(tok) ==
    IF ~tok.hasSource THEN 0
    ELSE IF tok.isPaused THEN tok.pauseTime
    ELSE IF tok.isPlaying THEN tok.currentTime - tok.startTime
    ELSE 0

\* SoundToken.seek(time) on a buffer-backed token: a playing token gets a new
\* source started at time, a paused one a new pauseTime
seekTo(H, t, time) ==
    LET tok == H.soundTokens[t] IN
    IF ~tok.hasSource \/ Max(0, time) = getCurrentTime(tok) THEN H
    ELSE IF tok.isPlaying
    THEN [H EXCEPT !.soundTokens[t].node = "live",
                   !.soundTokens[t].startTime = tok.currentTime - Max(0, time),
                   !.soundTokens[t].position = Max(0, time),
                   !.events = Append(@, <<"seek", t>>)]
    ELSE IF tok.isPaused
    THEN [H EXCEPT !.soundTokens[t].pauseTime = Max(0, time),
                   !.soundTokens[t].position = Max(0, time),
                   !.events = Append(@, <<"seek", t>>)]
    ELSE [H EXCEPT !.events = Append(@, <<"seek", t>>)]

\* a call on a token the user holds
TokenCall(t, H) ==
    /\ Returned(t)
    /\ Commit(H)
    /\ result' = "ok"
    /\ UNCHANGED <<isReady, unlockHandler, destroyed, maxChannels, cache, loadingPromises, fetches, alive,
                   name, limit, parentChannel, volume, muted, gain, calls>>

TokenSetVolume(t, v) == TokenCall(t, tokenSetVolume(Heap, t, v))
TokenMute(t, m) == TokenCall(t, tokenMute(Heap, t, m))
TokenPause(t) == TokenCall(t, pause(Heap, t))
TokenSeekTo(t, time) == TokenCall(t, seekTo(Heap, t, time))

\* one second passes on the audio clock: a playing buffer source moves on
Tick(t) ==
    LET tok == soundTokens[t] IN
    /\ tok.currentTime < MaxClock
    /\ TokenCall(t, [Heap EXCEPT !.soundTokens[t].currentTime = @ + 1,
                                  !.soundTokens[t].position =
                                      IF tok.hasSource /\ tok.node = "live" THEN @ + 1 ELSE @])

TokenSetRate(t, rate) == TokenCall(t, setRate(Heap, t, rate))
TokenSeek(t) == TokenCall(t, seek(Heap, t))

TokenResume(t) ==
    /\ soundTokens[t].plays < MaxPlays
    /\ TokenCall(t, resume(Heap, t))

TokenFade(t, from, to, duration) ==
    /\ Len(soundTokens[t].fades) < MaxFades
    /\ TokenCall(t, fade(Heap, t, from, to, duration))

TokenStopFade(t, duration) ==
    /\ Len(soundTokens[t].fades) < MaxFades
    /\ TokenCall(t, stopFade(Heap, t, duration))

\* cancel() and finish() called on a FadeToken the user holds: one that fade()
\* returned, the fade of stop({fadeDuration}) is not handed out
FadeCancel(t, f) ==
    /\ soundTokens[t].fades[f].then = "none"
    /\ TokenCall(t, fadeCancel(Heap, t, f))

FadeFinish(t, f) ==
    /\ soundTokens[t].fades[f].then = "none"
    /\ TokenCall(t, fadeFinish(Heap, t, f))

\* a continuation chained on a resolved promise runs before any timer or event
NoMicrotask ==
    \A t \in Tokens : \A f \in DOMAIN soundTokens[t].fades :
        ~(soundTokens[t].fades[f].then = "pending" /\ soundTokens[t].fades[f].resolved)

\* the continuation of stop({fadeDuration}): () => { this.doStop(); }
StopAfterFade(t, f) ==
    /\ soundTokens[t].fades[f].then = "pending"
    /\ soundTokens[t].fades[f].resolved
    /\ TokenCall(t, doStop([Heap EXCEPT !.soundTokens[t].fades[f].then = "done"], t))

\* the setTimeout callback of fade(); by then a ramp still scheduled has run
FadeTimer(t, f) ==
    LET tok == soundTokens[t]
        H0 == [Heap EXCEPT !.soundTokens[t].fades[f].timer = "fired"]
        H1 == IF tok.ramp = f
              THEN [H0 EXCEPT !.soundTokens[t].gain = tok.fades[f].endVolume,
                              !.soundTokens[t].ramp = 0]
              ELSE H0
        H2 == [H1 EXCEPT !.soundTokens[t].volume = tok.fades[f].endVolume]
    IN  /\ tok.fades[f].timer = "armed"
        /\ NoMicrotask
        /\ TokenCall(t, IF IsRunning(tok.fades[f])
                        THEN [fadeFinish(H2, t, f) EXCEPT !.soundTokens[t].currentFade = 0]
                        ELSE H1)

\* the play() promise of resume() settles; its catch puts the flags back
PlayPromiseSettled(t, ok) ==
    /\ soundTokens[t].plays > 0
    /\ NoMicrotask
    /\ TokenCall(t, IF ok THEN [Heap EXCEPT !.soundTokens[t].plays = @ - 1]
                    ELSE [Heap EXCEPT !.soundTokens[t].plays = @ - 1,
                                      !.soundTokens[t].isPlaying = FALSE,
                                      !.soundTokens[t].isPaused = TRUE])

\* the constructor's setTimeout for endTime: if (this._isPlaying) this.stop()
EndTimer(t) ==
    /\ soundTokens[t].endTimer
    /\ NoMicrotask
    /\ LET H0 == [Heap EXCEPT !.soundTokens[t].endTimer = FALSE] IN
       TokenCall(t, IF soundTokens[t].isPlaying THEN stop(H0, t) ELSE H0)


\* ---------------------------------------------------------------------- Sound
\* Sound.ensureNotDestroyed, Sound.ensureReady, then the call on the master channel
SoundCall(body) ==
    IF ~ensureNotDestroyed THEN Throw("destroyed")
    ELSE IF ~ensureReady THEN Throw("notReady")
    ELSE body

SoundCreateChannel(nm, vol, lim) == SoundCall(ChannelCreateChannel(Master, nm, vol, lim))
SoundGetChannel(nm) == SoundCall(ChannelGetChannel(Master, nm))
SoundGetChannels == SoundCall(ChannelGetChannels(Master))
SoundGetTokens == SoundCall(ChannelGetTokens(Master))
SoundSetVolume(v) == SoundCall(ChannelSetVolume(Master, v))
SoundGetVolume == SoundCall(Return)
SoundMute(m) == SoundCall(ChannelMute(Master, m))
SoundUnmute == SoundCall(ChannelUnmute(Master))
SoundIsMuted == SoundCall(Return)
SoundPlay(p, mode) == SoundCall(ChannelPlay(Master, p, mode))
SoundPlayCached(e) == SoundCall(ChannelPlayCached(Master, e))

\* Sound.load: AudioCache.load up to its first await
SoundLoad(p) ==
    SoundCall(
        IF CacheMiss(p)
        THEN /\ StartFetch(p)
             /\ result' = "ok" /\ events' = <<>>
             /\ UNCHANGED <<sessionVars, cache, alive, refCount, channelVars, soundTokens, calls>>
        ELSE Return)

\* Sound.load by a caller that awaits what it resolves to: the stored live
\* entry at once, else the call waits on the fetch in flight or on its own
LoadCall(p) ==
    SoundCall(
        IF CacheHit(p)
        THEN /\ result' = "ok" /\ events' = <<<<"loaded", cache[p]>>>>
             /\ UNCHANGED state
        ELSE /\ Len(calls) < MaxCalls
             /\ IF CacheJoin(p)
                THEN /\ calls' = Append(calls, Call(Null, p, "full", "load", loadingPromises[p], Null, Null))
                     /\ UNCHANGED <<loadingPromises, fetches>>
                ELSE /\ StartFetch(p)
                     /\ calls' = Append(calls, Call(Null, p, "full", "load", Len(fetches) + 1, Null, Null))
             /\ result' = "ok" /\ events' = <<>>
             /\ UNCHANGED <<sessionVars, cache, alive, refCount, channelVars, soundTokens>>)

\* Sound.destroy
destroy(H) == [remove(clear(H), Master) EXCEPT !.registeredChannels = {}]

Destroy ==
    IF destroyed THEN Return
    ELSE /\ destroyed' = TRUE
         /\ unlockHandler' = FALSE
         /\ alive' = ClearedAlive
         /\ cache' = [p \in DOMAIN cache |-> Null]
         /\ loadingPromises' = [p \in DOMAIN cache |-> Null]
         /\ Commit(destroy(Heap))
         /\ result' = "ok"
         /\ UNCHANGED <<isReady, maxChannels, fetches, name, limit, parentChannel, volume, muted, gain, calls>>

\* ------------------------------------------------------------- specifications
\* new Sound(): the master channel alone, the audio context not yet unlocked
Init ==
    /\ isReady = FALSE
    /\ unlockHandler = TRUE
    /\ destroyed = FALSE
    /\ maxChannels \in MaxChannelsOptions
    /\ registeredChannels = {}
    /\ cache = [p \in Paths |-> Null]
    /\ loadingPromises = [p \in Paths |-> Null]
    /\ fetches = <<>>
    /\ alive = <<>>
    /\ refCount = <<>>
    /\ name = (Master :> "__master__")
    /\ limit = (Master :> Infinity)
    /\ parentChannel = (Master :> Null)
    /\ volume = (Master :> 100)
    /\ muted = (Master :> FALSE)
    /\ removed = (Master :> FALSE)
    /\ gain = (Master :> 100)
    /\ output = (Master :> Destination)
    /\ disconnects = (Master :> 0)
    /\ subChannels = (Master :> <<>>)
    /\ tokens = (Master :> <<>>)
    /\ soundTokens = <<>>
    /\ calls = <<>>
    /\ result = "ok"
    /\ events = <<>>

\* the channel tree: every call of Sound and Channel that plays nothing
Next ==
    \/ Unlock
    \/ Destroy
    \/ \E nm \in Names, vol \in VolumeOptions, lim \in LimitOptions : SoundCreateChannel(nm, vol, lim)
    \/ \E nm \in Names : SoundGetChannel(nm)
    \/ SoundGetChannels
    \/ SoundGetTokens
    \/ \E v \in VolumeInputs : SoundSetVolume(v)
    \/ SoundGetVolume
    \/ \E m \in BOOLEAN : SoundMute(m)
    \/ SoundUnmute
    \/ SoundIsMuted
    \/ \E c \in Channels, nm \in Names, vol \in VolumeOptions, lim \in LimitOptions :
           ChannelCreateChannel(c, nm, vol, lim)
    \/ \E c \in Channels, nm \in Names : ChannelGetChannel(c, nm)
    \/ \E c \in Channels : ChannelGetChannels(c)
    \/ \E c \in Channels : ChannelGetTokens(c)
    \/ \E c \in Channels, v \in VolumeInputs : ChannelSetVolume(c, v)
    \/ \E c \in Channels, m \in BOOLEAN : ChannelMute(c, m)
    \/ \E c \in Channels : ChannelUnmute(c)
    \/ \E c \in Channels : ChannelRemove(c)

Spec == Init /\ [][Next]_vars


\* a call on a channel that has been removed
RemovedChannelCall(c) ==
    /\ removed[c]
    /\ \/ \E nm \in Names : ChannelCreateChannel(c, nm, 100, Infinity)
       \/ \E nm \in Names : ChannelGetChannel(c, nm)
       \/ ChannelGetChannels(c)
       \/ ChannelGetTokens(c)
       \/ \E v \in VolumeInputs : ChannelSetVolume(c, v)
       \/ \E m \in BOOLEAN : ChannelMute(c, m)
       \/ ChannelUnmute(c)
       \/ \E p \in Paths, mode \in PlayModes : ChannelPlay(c, p, mode)
       \/ \E e \in Entries : ChannelPlayCached(c, e)

\* a call on the session after destroy()
DestroyedSoundCall ==
    /\ destroyed
    /\ \/ \E nm \in Names : SoundCreateChannel(nm, 100, Infinity)
       \/ \E nm \in Names : SoundGetChannel(nm)
       \/ SoundGetChannels
       \/ SoundGetTokens
       \/ \E v \in VolumeInputs : SoundSetVolume(v)
       \/ SoundGetVolume
       \/ \E m \in BOOLEAN : SoundMute(m)
       \/ SoundUnmute
       \/ SoundIsMuted
       \/ \E p \in Paths, mode \in PlayModes : SoundPlay(p, mode)
       \/ \E e \in Entries : SoundPlayCached(e)
       \/ \E p \in Paths : SoundLoad(p)

\* a session after onceReady() and sound.createChannel("bgm", {limit: L})
InitPlay ==
    /\ isReady = TRUE
    /\ unlockHandler = FALSE
    /\ destroyed = FALSE
    /\ maxChannels = 3
    /\ registeredChannels = {1}
    /\ cache = [p \in Paths |-> Null]
    /\ loadingPromises = [p \in Paths |-> Null]
    /\ fetches = <<>>
    /\ alive = <<>>
    /\ refCount = <<>>
    /\ name = (Master :> "__master__" @@ 1 :> "bgm")
    /\ \E L \in {1, 2} : limit = (Master :> Infinity @@ 1 :> L)
    /\ parentChannel = (Master :> Null @@ 1 :> Master)
    /\ output = (Master :> Destination @@ 1 :> Master)
    /\ subChannels = (Master :> <<[key |-> "bgm", val |-> 1]>> @@ 1 :> <<>>)
    /\ volume = [c \in 0..1 |-> 100]
    /\ muted = [c \in 0..1 |-> FALSE]
    /\ removed = [c \in 0..1 |-> FALSE]
    /\ gain = [c \in 0..1 |-> 100]
    /\ disconnects = [c \in 0..1 |-> 0]
    /\ tokens = [c \in 0..1 |-> <<>>]
    /\ soundTokens = <<>>
    /\ calls = <<>>
    /\ result = "ok"
    /\ events = <<>>

\* what the platform and the user do to tokens and cache entries
TokenNext ==
    \/ \E i \in DOMAIN calls, resp \in Responses : PlayResolve(i, resp)
    \/ \E f \in Fetches, ok \in BOOLEAN : FetchDone(f, ok)
    \/ \E i \in DOMAIN calls : PlayAcquire(i)
    \/ \E i \in DOMAIN calls : PlayAttach(i)
    \/ \E t \in Tokens : TokenStop(t)
    \/ \E t \in Tokens : SourceEnded(t)
    \/ \E e \in Entries : CachedAudioUnload(e)
    \/ \E e \in Entries : CachedAudioForceUnload(e)
    \/ \E p \in Paths : SoundLoad(p)
    \/ \E c \in Channels : ChannelRemove(c)
    \/ Destroy
    \/ \E c \in Channels : RemovedChannelCall(c)
    \/ DestroyedSoundCall

\* overlapping play() calls on the sub-channel; the channels keep their volume
NextPlay ==
    \/ \E p \in Paths, mode \in PlayModes : ChannelPlay(1, p, mode)
    \/ \E e \in Entries : ChannelPlayCached(1, e)
    \/ TokenNext

SpecPlay == InitPlay /\ [][NextPlay]_vars

\* a session after onceReady() and
\*   const bgm = sound.createChannel("bgm", {limit: 1});
\*   const sfx = (sound or bgm).createChannel("sfx", {limit: 2});
InitTeardown ==
    /\ isReady = TRUE
    /\ unlockHandler = FALSE
    /\ destroyed = FALSE
    /\ maxChannels = 3
    /\ registeredChannels = {1, 2}
    /\ cache = [p \in Paths |-> Null]
    /\ loadingPromises = [p \in Paths |-> Null]
    /\ fetches = <<>>
    /\ alive = <<>>
    /\ refCount = <<>>
    /\ name = (Master :> "__master__" @@ 1 :> "bgm" @@ 2 :> "sfx")
    /\ limit = (Master :> Infinity @@ 1 :> 1 @@ 2 :> 2)
    /\ \E parent \in {Master, 1} :
         /\ parentChannel = (Master :> Null @@ 1 :> Master @@ 2 :> parent)
         /\ output = (Master :> Destination @@ 1 :> Master @@ 2 :> parent)
         /\ subChannels =
              [c \in 0..2 |->
                 IF c = Master
                 THEN IF parent = Master
                      THEN <<[key |-> "bgm", val |-> 1], [key |-> "sfx", val |-> 2]>>
                      ELSE <<[key |-> "bgm", val |-> 1]>>
                 ELSE IF c = parent THEN <<[key |-> "sfx", val |-> 2]>>
                 ELSE <<>>]
    /\ volume = [c \in 0..2 |-> 100]
    /\ muted = [c \in 0..2 |-> FALSE]
    /\ removed = [c \in 0..2 |-> FALSE]
    /\ gain = [c \in 0..2 |-> 100]
    /\ disconnects = [c \in 0..2 |-> 0]
    /\ tokens = [c \in 0..2 |-> <<>>]
    /\ soundTokens = <<>>
    /\ calls = <<>>
    /\ result = "ok"
    /\ events = <<>>

\* play() calls on every channel of the tree, one at a time, and the teardown
NextTeardown ==
    \/ \E c \in Channels, p \in Paths, mode \in PlayModes : calls = <<>> /\ ChannelPlay(c, p, mode)
    \/ \E c \in Channels, e \in Entries : calls = <<>> /\ ChannelPlayCached(c, e)
    \/ TokenNext

SpecTeardown == InitTeardown /\ [][NextTeardown]_vars

\* a session that has played one sound on the master channel: streamed (an
\* element, no cache entry) or from the cache entry of "a.mp3" (a buffer), with
\* an end time
InitToken ==
    /\ isReady = TRUE
    /\ unlockHandler = FALSE
    /\ destroyed = FALSE
    /\ maxChannels = 3
    /\ registeredChannels = {}
    /\ loadingPromises = [p \in Paths |-> Null]
    /\ fetches = <<>>
    /\ name = (Master :> "__master__")
    /\ limit = (Master :> Infinity)
    /\ parentChannel = (Master :> Null)
    /\ output = (Master :> Destination)
    /\ subChannels = (Master :> <<>>)
    /\ volume = (Master :> 100)
    /\ muted = (Master :> FALSE)
    /\ removed = (Master :> FALSE)
    /\ gain = (Master :> 100)
    /\ disconnects = (Master :> 0)
    /\ tokens = (Master :> <<1>>)
    /\ calls = <<>>
    /\ result = "ok"
    /\ events = <<>>
    /\ \E e \in {Null, 1} :
          /\ cache = [p \in Paths |-> e]
          /\ alive = (IF e = Null THEN <<>> ELSE <<TRUE>>)
          /\ refCount = (IF e = Null THEN <<>> ELSE <<1>>)
          /\ soundTokens =
               <<[NewToken(e) EXCEPT !.endTimer = TRUE,
                                     !.listeners.ended = Append(@, DeleteListener(Master)),
                                     !.listeners.stop = Append(@, DeleteListener(Master))]>>

\* what the user, the timers and the platform do to a token
NextToken ==
    \/ \E t \in Tokens, v \in VolumeInputs : TokenSetVolume(t, v)
    \/ \E t \in Tokens, m \in BOOLEAN : TokenMute(t, m)
    \/ \E t \in Tokens : TokenPause(t)
    \/ \E t \in Tokens : TokenResume(t)
    \/ \E t \in Tokens : TokenSeek(t)
    \/ \E t \in Tokens, from \in FadeVolumes, to \in FadeVolumes, duration \in FadeDurations :
          TokenFade(t, from, to, duration)
    \/ \E t \in Tokens : TokenStop(t)
    \/ \E t \in Tokens, duration \in FadeDurations \ {0} : TokenStopFade(t, duration)
    \/ \E t \in Tokens : \E f \in DOMAIN soundTokens[t].fades : FadeCancel(t, f)
    \/ \E t \in Tokens : \E f \in DOMAIN soundTokens[t].fades : FadeFinish(t, f)
    \/ \E t \in Tokens : \E f \in DOMAIN soundTokens[t].fades : StopAfterFade(t, f)
    \/ \E t \in Tokens : \E f \in DOMAIN soundTokens[t].fades : FadeTimer(t, f)
    \/ \E t \in Tokens, ok \in BOOLEAN : PlayPromiseSettled(t, ok)
    \/ \E t \in Tokens : EndTimer(t)
    \/ \E t \in Tokens : SourceEnded(t)
    \/ \E t \in Tokens : StoppedSourceEnded(t)

SpecToken == InitToken /\ [][NextToken]_vars

\* a ready session with two locators: load() calls and one play() call at a
\* time, in every load mode, overlap; entries are unloaded, the session destroyed
LoadPaths == {"a.mp3", "b.mp3"}

InitLoad ==
    /\ isReady = TRUE
    /\ unlockHandler = FALSE
    /\ destroyed = FALSE
    /\ maxChannels = 3
    /\ registeredChannels = {}
    /\ cache = [p \in LoadPaths |-> Null]
    /\ loadingPromises = [p \in LoadPaths |-> Null]
    /\ fetches = <<>>
    /\ alive = <<>>
    /\ refCount = <<>>
    /\ name = (Master :> "__master__")
    /\ limit = (Master :> Infinity)
    /\ parentChannel = (Master :> Null)
    /\ output = (Master :> Destination)
    /\ subChannels = (Master :> <<>>)
    /\ volume = (Master :> 100)
    /\ muted = (Master :> FALSE)
    /\ removed = (Master :> FALSE)
    /\ gain = (Master :> 100)
    /\ disconnects = (Master :> 0)
    /\ tokens = (Master :> <<>>)
    /\ soundTokens = <<>>
    /\ calls = <<>>
    /\ result = "ok"
    /\ events = <<>>

NextLoad ==
    \/ \E p \in LoadPaths : LoadCall(p)
    \/ \E p \in LoadPaths, mode \in LoadModes :
          /\ \A i \in DOMAIN calls : calls[i].chan = Null
          /\ SoundPlay(p, mode)
    \/ \E i \in DOMAIN calls, resp \in Responses : PlayResolve(i, resp)
    \/ \E f \in Fetches, ok \in BOOLEAN : FetchDone(f, ok)
    \/ \E i \in DOMAIN calls : PlayAcquire(i)
    \/ \E i \in DOMAIN calls : PlayAttach(i)
    \/ \E t \in Tokens : TokenStop(t)
    \/ \E e \in Entries : CachedAudioForceUnload(e)
    \/ Destroy

SpecLoad == InitLoad /\ [][NextLoad]_vars

\* the listeners of the user on token t, over both events
UserListeners(t) ==
    { l \in Range(soundTokens[t].listeners.ended) \cup Range(soundTokens[t].listeners.stop) :
          l.cb = "user" }

\* SoundToken.on and SoundToken.once with a callback not registered before
TokenOn(t, ev, id, once, target) ==
    /\ Cardinality(UserListeners(t)) < MaxListeners
    /\ \A l \in UserListeners(t) : l.id # id
    /\ TokenCall(t, [Heap EXCEPT !.soundTokens[t].listeners[ev] =
                                     Append(@, UserListener(ev, id, once, target))])

\* SoundToken.off
TokenOff(t, ev, id) ==
    TokenCall(t, [Heap EXCEPT !.soundTokens[t].listeners[ev] = off(@, id)])

\* a playing token on the master channel: the user registers and removes
\* listeners, some of which call off() when they run; the token ends, is stopped
CallbackIds == {1, 2, 3}
ListenedEvents == {"ended", "stop"}

InitEmit == InitToken

NextEmit ==
    \/ \E t \in Tokens, ev \in ListenedEvents, id \in CallbackIds, once \in BOOLEAN,
          target \in CallbackIds \cup {0} : TokenOn(t, ev, id, once, target)
    \/ \E t \in Tokens, ev \in ListenedEvents, id \in CallbackIds : TokenOff(t, ev, id)
    \/ \E t \in Tokens : SourceEnded(t)
    \/ \E t \in Tokens : TokenStop(t)

SpecEmit == InitEmit /\ [][NextEmit]_vars

\* a buffer-backed token played on the master channel with startTime s when
\* the audio clock showed c: time passes, the token is paused, resumed, sought
ClockAtCreation == {0, 5}
StartTimes == {0, 2}
SeekTimes == {-1, 0, 3}

InitClock ==
    /\ isReady = TRUE
    /\ unlockHandler = FALSE
    /\ destroyed = FALSE
    /\ maxChannels = 3
    /\ registeredChannels = {}
    /\ cache = [p \in Paths |-> 1]
    /\ loadingPromises = [p \in Paths |-> Null]
    /\ fetches = <<>>
    /\ alive = <<TRUE>>
    /\ refCount = <<1>>
    /\ name = (Master :> "__master__")
    /\ limit = (Master :> Infinity)
    /\ parentChannel = (Master :> Null)
    /\ output = (Master :> Destination)
    /\ subChannels = (Master :> <<>>)
    /\ volume = (Master :> 100)
    /\ muted = (Master :> FALSE)
    /\ removed = (Master :> FALSE)
    /\ gain = (Master :> 100)
    /\ disconnects = (Master :> 0)
    /\ tokens = (Master :> <<1>>)
    /\ calls = <<>>
    /\ result = "ok"
    /\ events = <<>>
    /\ \E c \in ClockAtCreation, s \in StartTimes :
          soundTokens =
              <<[NewToken(1) EXCEPT
                    !.currentTime = c,
                    !.startTime = s,
                    !.position = s,
                    !.listeners.ended = Append(@, DeleteListener(Master)),
                    !.listeners.stop = Append(@, DeleteListener(Master))]>>

NextClock ==
    \/ \E t \in Tokens : Tick(t)
    \/ \E t \in Tokens : TokenPause(t)
    \/ \E t \in Tokens : TokenResume(t)
    \/ \E t \in Tokens, time \in SeekTimes : TokenSeekTo(t, time)
    \/ \E t \in Tokens : TokenStop(t)

SpecClock == InitClock /\ [][NextClock]_vars

\* a ready session whose master volume, channel volumes and play options are
\* whatever the caller passes: one token has been played on the master channel
VolumeRequests == {-50, 150}        \* the volume option of the session, a channel, a play
RateRequests == {0, 2000}           \* the rate given to play and to setRate

InitVolume ==
    /\ isReady = TRUE
    /\ unlockHandler = FALSE
    /\ destroyed = FALSE
    /\ maxChannels = 2
    /\ registeredChannels = {}
    /\ cache = [p \in Paths |-> Null]
    /\ loadingPromises = [p \in Paths |-> Null]
    /\ fetches = <<>>
    /\ alive = <<>>
    /\ refCount = <<>>
    /\ name = (Master :> "__master__")
    /\ limit = (Master :> Infinity)
    /\ parentChannel = (Master :> Null)
    /\ output = (Master :> Destination)
    /\ subChannels = (Master :> <<>>)
    /\ muted = (Master :> FALSE)
    /\ removed = (Master :> FALSE)
    /\ disconnects = (Master :> 0)
    /\ tokens = (Master :> <<1>>)
    /\ calls = <<>>
    /\ result = "ok"
    /\ events = <<>>
    /\ \E v \in VolumeRequests :
          /\ volume = (Master :> v)
          /\ gain = (Master :> v)
    /\ \E v \in VolumeRequests, r \in RateRequests :
          soundTokens =
              <<[NewTokenWith(Null, v, r) EXCEPT
                    !.listeners.ended = Append(@, DeleteListener(Master)),
                    !.listeners.stop = Append(@, DeleteListener(Master))]>>

NextVolume ==
    \/ \E c \in Channels, nm \in Names, vol \in VolumeRequests, lim \in LimitOptions :
           ChannelCreateChannel(c, nm, vol, lim)
    \/ \E c \in Channels, v \in VolumeInputs : ChannelSetVolume(c, v)
    \/ \E t \in Tokens, v \in VolumeInputs : TokenSetVolume(t, v)
    \/ \E t \in Tokens, r \in RateRequests : TokenSetRate(t, r)
    \/ \E t \in Tokens, from \in FadeVolumes, to \in FadeVolumes, duration \in FadeDurations :
          TokenFade(t, from, to, duration)
    \/ \E t \in Tokens : \E f \in DOMAIN soundTokens[t].fades : FadeTimer(t, f)

SpecVolume == InitVolume /\ [][NextVolume]_vars

\* ------------------------------------------------------------------ properties
Errors == {"removed", "exists", "limit", "destroyed", "notReady", "dead", "loadFailure"}

\* a token object after its terminal stop
IsStopped(tok) == tok.stopped > 0 /\ ~tok.isPlaying /\ ~tok.isPaused /\ ~tok.hasSource

\* the step is a play() call on channel c
PlayCall(c) ==
    \/ \E p \in Paths, mode \in PlayModes : ChannelPlay(c, p, mode)
    \/ \E e \in Entries : ChannelPlayCached(c, e)

\* the step is a createChannel() call on channel c
CreateCall(c, nm) ==
    \E vol \in VolumeOptions \cup {100}, lim \in LimitOptions : ChannelCreateChannel(c, nm, vol, lim)

\* the channels that are not removed
LiveChannels == { c \in Channels : ~removed[c] }

\* d is a live child of c
LiveChild(c, d) == parentChannel[d] = c /\ ~removed[d]

\* the channel and everything below it in the child maps
RECURSIVE Subtree(_)
Subtree(c) == {c} \cup UNION { Subtree(subChannels[c][i].val) : i \in DOMAIN subChannels[c] }

\* C1: for a channel with limit L, the tokens attached to the channel never
\* number more than L, overlapping play() calls included
C1_AttachedWithinLimit == \A c \in Channels : Len(tokens[c]) <= limit[c]

\* C2: a play() on a live channel whose attached tokens have reached the limit
\* stops exactly one token, the earliest attached of those attached, without
\* fade (it is terminal when the call suspends), and before anything of the new
\* token (a cache reference, the token itself) is created
C2_EvictsOldestFirst ==
    [][\A c \in Channels :
         (~removed[c] /\ tokens[c] # <<>> /\ Len(tokens[c]) >= limit[c] /\ PlayCall(c)) =>
            LET oldest == tokens[c][1] IN
            /\ { t \in Tokens : soundTokens'[t].stopped > soundTokens[t].stopped } = {oldest}
            /\ soundTokens'[oldest].stopped = soundTokens[oldest].stopped + 1
            /\ IsStopped(soundTokens'[oldest])
            /\ tokens'[c] = Tail(tokens[c])
            /\ Len(events') >= 2
            /\ events'[1] = <<"play", c>>
            /\ events'[2] = <<"stop", oldest>>
            /\ \A k \in 3..Len(events') : events'[k][1] \in {"addRef", "create"}
      ]_vars

\* a play() on the channel of limit 2 has just stopped the older of its two tokens
C2_Witness ==
    /\ limit[1] = 2
    /\ Len(events) >= 2
    /\ events[1] = <<"play", 1>>
    /\ events[2] = <<"stop", 1>>
    /\ tokens[1] = <<2>>

\* what reaches the destination of a signal entering channel c's gain node
RECURSIVE EffectiveGain(_)
EffectiveGain(c) ==
    IF output[c] = Destination THEN gain[c]
    ELSE IF output[c] = Detached THEN 0
    ELSE gain[c] * EffectiveGain(output[c])

\* the product of (stored volume, or 0 if muted) from channel c up to the root
RECURSIVE PathProduct(_)
PathProduct(c) ==
    LET own == IF muted[c] THEN 0 ELSE volume[c]
    IN  IF parentChannel[c] = Null THEN own ELSE own * PathProduct(parentChannel[c])

\* C3: the effective loudness of every live channel is the product, over the
\* path from the channel up to the root, of each node's stored volume (0 if the
\* node is muted), at any depth
C3_EffectiveLoudnessIsPathProduct ==
    \A c \in Channels : ~removed[c] => EffectiveGain(c) = PathProduct(c)

\* a channel two levels below the root, raised to full volume under a parent at 50%
C3_Witness ==
    \E c \in Channels :
        /\ ~removed[c]
        /\ parentChannel[c] # Null
        /\ parentChannel[parentChannel[c]] # Null
        /\ volume[c] = 100
        /\ EffectiveGain(c) = 500000

\* C4: mute() puts the channel's gain at 0 and keeps its stored volume (which is
\* the level the channel had if it was audible), setVolume(v) on a muted channel
\* stores clamp(v) and leaves the gain at 0, unmute() puts the gain at the stored
\* volume, and the stored volume of a channel changes only by a setVolume() on
\* that channel itself
C4_MuteKeepsVolume ==
    [][\A c \in Channels :
         /\ (~removed[c] /\ ChannelMute(c, TRUE)) =>
                /\ gain'[c] = 0
                /\ volume'[c] = volume[c]
                /\ ~muted[c] => volume'[c] = gain[c]
         /\ \A v \in VolumeInputs :
                (~removed[c] /\ muted[c] /\ ChannelSetVolume(c, v)) =>
                    volume'[c] = Clamp(v) /\ gain'[c] = 0
         /\ (~removed[c] /\ ChannelUnmute(c)) =>
                gain'[c] = volume[c] /\ volume'[c] = volume[c]
         /\ volume'[c] # volume[c] => \E v \in VolumeInputs : ChannelSetVolume(c, v)
      ]_vars

\* a muted sub-channel whose stored volume was raised while its gain stayed at 0
C4_Witness ==
    \E c \in Channels \ {Master} :
        ~removed[c] /\ muted[c] /\ volume[c] = 100 /\ gain[c] = 0

\* C5: createChannel(name) on a channel that has a live child of that name
\* throws and changes nothing, and the live children of a channel always have
\* pairwise distinct names
C5_DuplicateNameRefused ==
    [][/\ \A c \in Channels, nm \in Names :
            ((\E d \in Channels : LiveChild(c, d) /\ name[d] = nm) /\ CreateCall(c, nm)) =>
                result' = "exists" /\ UNCHANGED state
       /\ \A a, b \in DOMAIN removed' :
            (a # b /\ ~removed'[a] /\ ~removed'[b] /\ parentChannel'[a] = parentChannel'[b]) =>
                name'[a] # name'[b]
      ]_vars

\* a createChannel() has just been refused for its name, with the sub-channel alive
C5_Witness ==
    /\ result = "exists"
    /\ \E d \in Channels \ {Master} : ~removed[d]

\* C6: the live channels, the root counted, never number more than maxChannels;
\* createChannel() with a free name on a live channel succeeds when they number
\* less and throws, creating and registering nothing, when they number
\* maxChannels (so that a removal frees a slot)
C6_ChannelCeiling ==
    [][/\ Cardinality({ c \in DOMAIN removed' : ~removed'[c] }) <= maxChannels'
       /\ \A c \in Channels, nm \in Names :
            (~removed[c] /\ ~(\E d \in Channels : LiveChild(c, d) /\ name[d] = nm)
                /\ CreateCall(c, nm)) =>
                IF Cardinality(LiveChannels) < maxChannels
                THEN /\ result' = "ok"
                     /\ DOMAIN removed' = Channels \cup {NextChannelId}
                     /\ ~removed'[NextChannelId]
                     /\ NextChannelId \in registeredChannels'
                     /\ parentChannel'[NextChannelId] = c
                     /\ name'[NextChannelId] = nm
                ELSE result' = "limit" /\ UNCHANGED state
      ]_vars

\* more channels have been created than maxChannels admits at a time: the last
\* one took the slot of a removed one
C6_Witness ==
    /\ result = "ok"
    /\ Cardinality(Channels) > maxChannels
    /\ Cardinality(LiveChannels) = maxChannels
    /\ ~removed[Cardinality(Channels) - 1]

\* C7: when remove() returns on a channel, every channel of its subtree is
\* removed, has no attached token, is unregistered and has had its gain node
\* disconnected exactly once, every token that was attached is stopped, and the
\* channel is absent from its parent's child map; a repeated remove() included
C7_RemoveTearsDownSubtree ==
    [][\A c \in Channels :
         ChannelRemove(c) =>
            /\ \A d \in Subtree(c) :
                 /\ removed'[d]
                 /\ tokens'[d] = <<>>
                 /\ \A t \in Range(tokens[d]) : IsStopped(soundTokens'[t])
                 /\ d \notin registeredChannels'
                 /\ disconnects'[d] = 1
                 /\ output'[d] = Detached
            /\ parentChannel[c] # Null =>
                 \A i \in DOMAIN subChannels'[parentChannel[c]] :
                     subChannels'[parentChannel[c]][i].val # c
      ]_vars

\* C8: a removed channel stays removed, and play, createChannel, getChannel,
\* getChannels, setVolume, mute, unmute and getTokens on it throw and change
\* nothing
C8_RemovedIsPermanent ==
    [][\A c \in Channels :
         /\ removed[c] => removed'[c]
         /\ RemovedChannelCall(c) =>
                result' = "removed" /\ events' = <<>> /\ UNCHANGED state
      ]_vars

\* a call has just been refused by a removed channel that holds a playing token
C8_Witness ==
    /\ result = "removed"
    /\ ~destroyed
    /\ \E c \in Channels :
          removed[c] /\ \E t \in Range(tokens[c]) : soundTokens[t].isPlaying

\* C9: when destroy() returns, every channel is removed, every token that was
\* attached to a channel is stopped, every entry stored in the cache is dead
\* with refCount 0 and the registry is empty; a second destroy() changes nothing
C9_DestroyTearsEverythingDown ==
    [][Destroy =>
         IF destroyed THEN UNCHANGED state
         ELSE /\ \A c \in Channels : removed'[c]
              /\ \A c \in Channels : \A t \in Range(tokens[c]) : IsStopped(soundTokens'[t])
              /\ \A p \in Paths :
                   cache[p] # Null => ~alive'[cache[p]] /\ refCount'[cache[p]] = 0
              /\ registeredChannels' = {}
      ]_vars

\* C10: on a destroyed session createChannel, getChannel, getChannels, play,
\* load, setVolume, getVolume, mute, unmute, isMuted and getTokens throw, and so
\* do play and createChannel on every channel; nothing changes
C10_DestroyedSessionRefusesCalls ==
    [][destroyed =>
         /\ DestroyedSoundCall => result' \in Errors /\ UNCHANGED state
         /\ \A c \in Channels, nm \in Names :
                (PlayCall(c) \/ CreateCall(c, nm)) => result' \in Errors /\ UNCHANGED state
      ]_vars

\* a call has just been refused by a destroyed session that had played tokens
C10_Witness ==
    /\ destroyed
    /\ result = "destroyed"
    /\ soundTokens # <<>>

\* ------------------------------------------------------- properties of a token
\* the states of a token: Stopped and Ended are its terminal states
IsTerminal(tok) == tok.stopped > 0 \/ tok.ended
PlayingState(tok) == ~IsTerminal(tok) /\ tok.isPlaying /\ ~tok.isPaused
PausedState(tok) == ~IsTerminal(tok) /\ tok.isPaused /\ ~tok.isPlaying

\* C11: once a token has been stopped, isPlaying() and isPaused() are both false
\* in every later state, whatever is called on it and whichever timer or
\* platform rejection arrives afterwards
C11_StoppedIsPermanent ==
    \A t \in Tokens :
        soundTokens[t].stopped > 0 => ~soundTokens[t].isPlaying /\ ~soundTokens[t].isPaused

\* C12: once the source has signalled its natural end, the token is neither
\* playing nor paused, and no later pause() or resume() makes it so
C12_EndedIsTerminal ==
    \A t \in Tokens :
        soundTokens[t].ended => ~soundTokens[t].isPlaying /\ ~soundTokens[t].isPaused

\* C13: a token starts Playing; pause() acts only on a Playing token (to Paused,
\* emitting 'pause'), resume() only on a Paused one (to Playing, emitting
\* 'resume'), in every other state each changes nothing and emits nothing; and
\* no token is ever both playing and paused
C13_PauseResumeStateMachine ==
    /\ \A t \in Tokens : PlayingState(soundTokens[t])
    /\ [](\A t \in Tokens : ~(soundTokens[t].isPlaying /\ soundTokens[t].isPaused))
    /\ [][\A t \in Tokens :
            /\ TokenPause(t) =>
                 IF PlayingState(soundTokens[t])
                 THEN PausedState(soundTokens'[t]) /\ events' = <<<<"pause", t>>>>
                 ELSE soundTokens' = soundTokens /\ events' = <<>>
            /\ TokenResume(t) =>
                 IF PausedState(soundTokens[t])
                 THEN PlayingState(soundTokens'[t]) /\ events' = <<<<"resume", t>>>>
                 ELSE soundTokens' = soundTokens /\ events' = <<>>]_vars

\* whether the step's log holds the terminal stop of token t
StopLogged(t) == \E k \in DOMAIN events' : events'[k] = <<"stop", t>>

\* C14: stop({fadeDuration: D}) with D > 0 returns with the token not stopped,
\* its source kept and no 'stop' emitted, the stop chained on the promise of the
\* fade it started; and a terminal stop runs only in a plain stop(), in the
\* end-time timer, or in such a continuation once its fade's promise is resolved
C14_StopWaitsForFade ==
    [][\A t \in Tokens :
          /\ \A d \in FadeDurations \ {0} :
                TokenStopFade(t, d) =>
                    /\ soundTokens'[t].stopped = soundTokens[t].stopped
                    /\ soundTokens'[t].hasSource = soundTokens[t].hasSource
                    /\ ~StopLogged(t)
                    /\ LET f == Len(soundTokens'[t].fades) IN
                          /\ f = Len(soundTokens[t].fades) + 1
                          /\ soundTokens'[t].fades[f].then = "pending"
                          /\ ~soundTokens'[t].fades[f].resolved
          /\ (soundTokens'[t].stopped > soundTokens[t].stopped \/ StopLogged(t)) =>
                \/ TokenStop(t)
                \/ EndTimer(t)
                \/ \E f \in DOMAIN soundTokens[t].fades :
                      /\ soundTokens[t].fades[f].then = "pending"
                      /\ soundTokens[t].fades[f].resolved
                      /\ StopAfterFade(t, f)]_vars

\* a fade-out is under way: the token plays on, its stop waits for the fade
C14_Witness ==
    \E t \in Tokens : \E f \in DOMAIN soundTokens[t].fades :
        /\ soundTokens[t].fades[f].then = "pending"
        /\ ~soundTokens[t].fades[f].resolved
        /\ soundTokens[t].stopped = 0
        /\ soundTokens[t].hasSource
        /\ soundTokens[t].isPlaying

\* C15: when the stop deferred by stop({fadeDuration: D}) runs, the token
\* becomes terminal and this is the one and only time its 'stop' is emitted,
\* whatever was called on the token during the fade-out
C15_FadeOutStopsExactlyOnce ==
    [][\A t \in Tokens : \A f \in DOMAIN soundTokens[t].fades :
          StopAfterFade(t, f) =>
              /\ soundTokens'[t].stopped = 1
              /\ ~soundTokens'[t].isPlaying /\ ~soundTokens'[t].isPaused]_vars

\* C16: setVolume() during a pending fade-out leaves that fade cancelled, not
\* finished, with its promise resolved and the token without a current fade, so
\* that the deferred stop is the next thing to run; when the fade's timer
\* expires later the token is stopped already and the callback changes nothing
\* (the gain's own automation apart) and emits nothing
C16_SetVolumeCutsFadeOutShort ==
    [][\A t \in Tokens : \A f \in DOMAIN soundTokens[t].fades :
          /\ \A v \in VolumeInputs :
                ( /\ soundTokens[t].currentFade = f
                  /\ soundTokens[t].fades[f].then = "pending"
                  /\ IsRunning(soundTokens[t].fades[f])
                  /\ TokenSetVolume(t, v) ) =>
                    /\ soundTokens'[t].fades[f].cancelled
                    /\ ~soundTokens'[t].fades[f].finishedInternal
                    /\ soundTokens'[t].fades[f].resolved
                    /\ soundTokens'[t].fades[f].then = "pending"
                    /\ soundTokens'[t].currentFade = 0
                    /\ soundTokens'[t].volume = Clamp(v)
                    /\ ~NoMicrotask'
          /\ ( /\ soundTokens[t].fades[f].cancelled
               /\ soundTokens[t].fades[f].then # "none"
               /\ FadeTimer(t, f) ) =>
                    /\ soundTokens[t].fades[f].then = "done"
                    /\ soundTokens[t].stopped > 0
                    /\ events' = <<>>
                    /\ soundTokens'[t] = [soundTokens[t] EXCEPT !.fades[f].timer = "fired",
                                                                !.gain = soundTokens'[t].gain,
                                                                !.ramp = soundTokens'[t].ramp]]_vars

\* setVolume() has cut the only fade-out short: the fade is cancelled, the token
\* stopped once, the fade's timer still to expire
C16_Witness ==
    \E t \in Tokens :
        /\ Len(soundTokens[t].fades) = 1
        /\ soundTokens[t].fades[1].cancelled
        /\ ~soundTokens[t].fades[1].finishedInternal
        /\ soundTokens[t].fades[1].then = "done"
        /\ soundTokens[t].fades[1].timer = "armed"
        /\ soundTokens[t].currentFade = 0
        /\ soundTokens[t].stopped = 1

\* C17: mute() or mute(false) while a fade of the token is running leaves the
\* stored volume at the fade's target, the fade finished, not cancelled, with
\* its promise resolved, the token without a current fade, and the gain at 0
\* when muting, at the target when unmuting
C17_MuteSkipsToFadeTarget ==
    [][\A t \in Tokens : \A f \in DOMAIN soundTokens[t].fades : \A m \in BOOLEAN :
          (IsRunning(soundTokens[t].fades[f]) /\ TokenMute(t, m)) =>
              /\ soundTokens'[t].isMuted = m
              /\ soundTokens'[t].volume = soundTokens[t].fades[f].endVolume
              /\ soundTokens'[t].gain = (IF m THEN 0 ELSE soundTokens[t].fades[f].endVolume)
              /\ soundTokens'[t].fades[f].finishedInternal
              /\ ~soundTokens'[t].fades[f].cancelled
              /\ soundTokens'[t].fades[f].resolved
              /\ soundTokens'[t].currentFade = 0]_vars

\* mute() has finished a fade-out ahead of its timer: nothing else finishes the
\* fade of stop({fadeDuration}) while its timer is armed
C17_Witness ==
    \E t \in Tokens : \E f \in DOMAIN soundTokens[t].fades :
        /\ soundTokens[t].fades[f].then # "none"
        /\ soundTokens[t].fades[f].timer = "armed"
        /\ soundTokens[t].fades[f].finishedInternal
        /\ ~soundTokens[t].fades[f].cancelled
        /\ soundTokens[t].isMuted
        /\ soundTokens[t].currentFade = 0
        /\ soundTokens[t].volume = soundTokens[t].fades[f].endVolume

\* C18: fade(from, to, 0) leaves the stored volume at to clamped to [0,1], hands
\* back a fade that is already finished with its promise resolved, leaves every
\* fade that was running cancelled with its promise resolved, and leaves the
\* token without a current fade
C18_FadeOfNoDurationIsImmediate ==
    [][\A t \in Tokens : \A from \in FadeVolumes, to \in FadeVolumes :
          TokenFade(t, from, to, 0) =>
              LET new == Len(soundTokens[t].fades) + 1 IN
              /\ Len(soundTokens'[t].fades) = new
              /\ soundTokens'[t].volume = Max(0, Min(100, to))
              /\ soundTokens'[t].fades[new].endVolume = Max(0, Min(100, to))
              /\ soundTokens'[t].fades[new].finishedInternal
              /\ soundTokens'[t].fades[new].resolved
              /\ ~soundTokens'[t].fades[new].cancelled
              /\ soundTokens'[t].fades[new].timer = "none"
              /\ soundTokens'[t].currentFade = 0
              /\ \A f \in DOMAIN soundTokens[t].fades :
                    IsRunning(soundTokens[t].fades[f]) =>
                        /\ soundTokens'[t].fades[f].cancelled
                        /\ ~soundTokens'[t].fades[f].finishedInternal
                        /\ soundTokens'[t].fades[f].resolved]_vars

\* a fade of no duration has replaced a running one: the first is cancelled
\* with its timer still armed, the second was never given a timer
C18_Witness ==
    \E t \in Tokens :
        /\ Len(soundTokens[t].fades) = 2
        /\ soundTokens[t].fades[1].cancelled
        /\ soundTokens[t].fades[1].timer = "armed"
        /\ soundTokens[t].fades[2].timer = "none"
        /\ soundTokens[t].fades[2].finishedInternal
        /\ soundTokens[t].fades[2].endVolume = 0
        /\ soundTokens[t].volume = 0
        /\ soundTokens[t].currentFade = 0

\* the fades of token t that are neither cancelled nor finished
RunningFades(t) == {f \in DOMAIN soundTokens[t].fades : IsRunning(soundTokens[t].fades[f])}

\* C19: a token never has more than one running fade, and a running fade is the
\* token's current one; a step that begins a new fade (fade() or
\* stop({fadeDuration})) leaves the fade that was running cancelled with its
\* promise resolved
C19_AtMostOneRunningFade ==
    /\ [](\A t \in Tokens :
            /\ Cardinality(RunningFades(t)) <= 1
            /\ \A f \in RunningFades(t) : soundTokens[t].currentFade = f)
    /\ [][\A t \in Tokens : \A f \in RunningFades(t) :
            Len(soundTokens'[t].fades) > Len(soundTokens[t].fades) =>
                /\ soundTokens'[t].fades[f].cancelled
                /\ ~soundTokens'[t].fades[f].finishedInternal
                /\ soundTokens'[t].fades[f].resolved]_vars

\* a second fade runs after it superseded the first, whose timer is yet to expire
C19_Witness ==
    \E t \in Tokens :
        /\ Len(soundTokens[t].fades) = 2
        /\ soundTokens[t].fades[1].cancelled
        /\ soundTokens[t].fades[1].resolved
        /\ soundTokens[t].fades[1].timer = "armed"
        /\ RunningFades(t) = {2}
        /\ soundTokens[t].currentFade = 2

\* C20, as stated: fade(from, to, d) with d > 0 leaves the stored volume at the
\* value the token had before the call, whatever from is
C20_VolumeKeptAtFadeStart ==
    [][\A t \in Tokens : \A from \in FadeVolumes, to \in FadeVolumes :
          \A d \in FadeDurations \ {0} :
              TokenFade(t, from, to, d) => soundTokens'[t].volume = soundTokens[t].volume]_vars

\* C20, amended: fade(from, to, d) with d > 0 sets the stored volume to from
\* clamped to [0,1] and starts a running fade towards to clamped; the stored
\* volume does not change for as long as that fade is running; and the step that
\* finishes the fade (its timer, mute(), finish()) sets the stored volume to
\* the fade's target
C20_VolumeIsFromWhileFading ==
    [][\A t \in Tokens :
          /\ \A from \in FadeVolumes, to \in FadeVolumes : \A d \in FadeDurations \ {0} :
                TokenFade(t, from, to, d) =>
                    LET new == Len(soundTokens[t].fades) + 1 IN
                    /\ soundTokens'[t].volume = Max(0, Min(100, from))
                    /\ Len(soundTokens'[t].fades) = new
                    /\ IsRunning(soundTokens'[t].fades[new])
                    /\ soundTokens'[t].fades[new].endVolume = Max(0, Min(100, to))
                    /\ soundTokens'[t].currentFade = new
          /\ \A f \in RunningFades(t) :
                /\ soundTokens'[t].volume # soundTokens[t].volume =>
                      ~IsRunning(soundTokens'[t].fades[f])
                /\ soundTokens'[t].fades[f].finishedInternal =>
                      soundTokens'[t].volume = soundTokens[t].fades[f].endVolume]_vars

\* a fade from 0 to 1 is running and the stored volume is 0
C20_Witness ==
    \E t \in Tokens :
        /\ Len(soundTokens[t].fades) = 1
        /\ RunningFades(t) = {1}
        /\ soundTokens[t].fades[1].then = "none"
        /\ soundTokens[t].fades[1].endVolume = 100
        /\ soundTokens[t].volume = 0
        /\ soundTokens[t].stopped = 0

\* ---------------------------------------------------- properties of the cache
\* the calls suspended in AudioCache.load for locator p, load() and play() alike
LoadsInFlight(p) == {i \in DOMAIN calls : calls[i].pc = "load" /\ calls[i].path = p}

\* the fetch/decode operations of locator p that have not settled
FetchesInFlight(p) == {f \in Fetches : fetches[f].path = p /\ ~fetches[f].done}

\* C21: a load() that finds a live entry stored returns it and fetches nothing;
\* a load() issued while a load of the same locator is in flight starts no
\* fetch and waits on the fetch the earlier one waits on; and when a fetch
\* succeeds every load() waiting on it resolves to the one entry that is stored
\* for the locator, which is also the entry the waiting play() calls go on with
C21_OverlappingLoadsShareOneFetch ==
    [][/\ \A p \in DOMAIN cache :
            (~destroyed /\ isReady /\ LoadCall(p)) =>
                IF CacheHit(p)
                THEN /\ fetches' = fetches /\ calls' = calls /\ cache' = cache
                     /\ events' = <<<<"loaded", cache[p]>>>>
                ELSE /\ Len(calls') = Len(calls) + 1
                     /\ IF LoadsInFlight(p) # {}
                        THEN /\ fetches' = fetches
                             /\ Cardinality(FetchesInFlight(p)) = 1
                             /\ \A i \in LoadsInFlight(p) :
                                   calls'[Len(calls')].wait = calls[i].wait
                        ELSE Len(fetches') = Len(fetches) + 1
       /\ \A f \in Fetches :
            (~fetches[f].done /\ FetchDone(f, TRUE)) =>
                LET p == fetches[f].path
                    waiting == {i \in DOMAIN calls : calls[i].pc = "load" /\ calls[i].wait = f}
                IN  /\ cache'[p] = Len(alive) + 1
                    /\ Len(events') = Cardinality({i \in waiting : calls[i].chan = Null})
                    /\ \A k \in DOMAIN events' : events'[k] = <<"loaded", cache'[p]>>
                    /\ Cardinality({k \in DOMAIN calls' :
                                        calls'[k].pc = "acquire" /\ calls'[k].entry = cache'[p]})
                          = Cardinality({i \in waiting : calls[i].chan # Null})
                    /\ \A k \in DOMAIN calls' : ~(calls'[k].pc = "load" /\ calls'[k].wait = f)]_vars

\* two load() calls of one locator wait on the only fetch ever started
C21_Witness ==
    /\ Len(fetches) = 1
    /\ Len(calls) = 2
    /\ \A i \in DOMAIN calls :
          /\ calls[i].chan = Null /\ calls[i].pc = "load"
          /\ calls[i].path = "a.mp3" /\ calls[i].wait = 1

\* C22: when the fetch of a locator fails, every load() waiting on it rejects
\* and no call waits on it any more, the locator's in-flight marker is cleared,
\* nothing is stored (the stored entries, their liveness and counts are as
\* before), so that on a live session the next load() of the locator starts a
\* fetch; the markers and the waiting calls of other locators are untouched
C22_FailedLoadRejectsAndClears ==
    [][\A f \in Fetches :
          (~fetches[f].done /\ FetchDone(f, FALSE)) =>
              LET p == fetches[f].path
                  waiting == {i \in DOMAIN calls : calls[i].pc = "load" /\ calls[i].wait = f}
              IN  /\ result' = "loadFailure"
                  /\ Len(events') = Cardinality({i \in waiting : calls[i].chan = Null})
                  /\ \A k \in DOMAIN events' : events'[k] = <<"rejected", f>>
                  /\ Len(calls') = Len(calls) - Cardinality(waiting)
                  /\ \A k \in DOMAIN calls' : ~(calls'[k].pc = "load" /\ calls'[k].wait = f)
                  /\ loadingPromises'[p] = Null
                  /\ cache' = cache /\ alive' = alive /\ refCount' = refCount
                  /\ (~destroyed => CacheMiss(p)')
                  /\ \A q \in DOMAIN cache \ {p} : loadingPromises'[q] = loadingPromises[q]
                  /\ \A i \in DOMAIN calls \ waiting : \E k \in DOMAIN calls' : calls'[k] = calls[i]]_vars

\* the fetch of one locator has failed under a load() while the other
\* locator's load is still in flight
C22_Witness ==
    /\ result = "loadFailure"
    /\ events = <<<<"rejected", 1>>>>
    /\ fetches[1].done
    /\ loadingPromises[fetches[1].path] = Null
    /\ \E i \in DOMAIN calls : calls[i].pc = "load" /\ calls[i].path # fetches[1].path

\* C23: unload() marks the entry dead exactly when its refCount is 0 and
\* otherwise changes nothing, without an error; forceUnload() marks it dead and
\* sets its refCount to 0 whatever it was; a dead entry stays dead; and raw()
\* on a dead entry throws, so that a play of it creates no token
C23_UnloadRespectsReferences ==
    [][/\ \A e \in Entries :
            /\ CachedAudioUnload(e) =>
                  /\ alive'[e] = (alive[e] /\ refCount[e] > 0)
                  /\ \A d \in Entries \ {e} : alive'[d] = alive[d]
                  /\ refCount' = refCount
                  /\ result' = "ok"
            /\ CachedAudioForceUnload(e) =>
                  /\ ~alive'[e] /\ refCount'[e] = 0
                  /\ \A d \in Entries \ {e} : alive'[d] = alive[d] /\ refCount'[d] = refCount[d]
                  /\ result' = "ok"
            /\ ~alive[e] => ~alive'[e]
            /\ \A c \in Channels :
                  (~alive[e] /\ ~removed[c] /\ ~destroyed /\ isReady /\ ChannelPlayCached(c, e)) =>
                      result' = "dead" /\ Len(soundTokens') = Len(soundTokens) /\ calls' = calls
       /\ \A i \in DOMAIN calls :
            (calls[i].pc = "acquire" /\ ~alive[calls[i].entry] /\ PlayAcquire(i)) =>
                result' = "dead" /\ Len(soundTokens') = Len(soundTokens)
                                 /\ Len(calls') = Len(calls) - 1]_vars

\* unload() has left an entry with two references alive
C23_Witness ==
    \E e \in Entries :
        /\ alive[e] /\ refCount[e] = 2
        /\ result = "ok" /\ events = <<>>
        /\ Len(soundTokens) = 2
        /\ \A i \in DOMAIN calls : calls[i].pc # "resolve"

\* the tokens that hold a reference on cache entry e
Holders(e) ==
    {t \in Tokens : soundTokens[t].cachedAudioRef = e /\ ~soundTokens[t].refReleased}

C26_TerminalEventsOnce ==
    [][ \A t \in Tokens :
          /\ soundTokens[t].stopped > 0 =>
                \A i \in DOMAIN events' : events'[i] # <<"stop", t>>
          /\ soundTokens[t].ended =>
                \A i \in DOMAIN events' : events'[i] # <<"ended", t>> ]_vars

\* C27: no removed channel ever has an attached token, and a play() that
\* resumes on a removed channel or a destroyed session is a no-op: it creates
\* no token and attaches nothing
C27_StalePlayIsCancelled ==
    [][ /\ \A c \in Channels : removed'[c] => tokens'[c] = <<>>
        /\ \A i \in DOMAIN calls :
              ( /\ calls[i].chan # Null
                /\ removed[calls[i].chan] \/ destroyed
                /\ \/ \E resp \in Responses : PlayResolve(i, resp)
                   \/ PlayAcquire(i)
                   \/ PlayAttach(i) )
              => soundTokens' = soundTokens /\ tokens' = tokens ]_vars

\* C28: a token leaves its channel's attached set, and the refCount of its
\* cache entry goes down, only in a step that stops the token or in which its
\* playback ends naturally; pause(), resume() and seek() change neither the
\* attached sets nor any refCount
C28_AttachedUntilStoppedOrEnded ==
    [][ \A t \in Tokens :
          LET e == soundTokens[t].cachedAudioRef
              terminates == soundTokens'[t].stopped > soundTokens[t].stopped \/ SourceEnded(t)
          IN  /\ \A c \in Channels :
                    (Contains(tokens[c], t) /\ ~Contains(tokens'[c], t)) => terminates
              /\ (e # Null /\ ~soundTokens[t].refReleased /\ soundTokens'[t].refReleased)
                    => terminates
              /\ (TokenPause(t) \/ TokenResume(t) \/ TokenSeek(t))
                    => tokens' = tokens /\ refCount' = refCount ]_vars

\* C29: a token played with an endTime is stopped when it reaches the end
\* time, paused and resumed in between or not: as long as such a token is
\* playing and neither stopped nor ended, the stop at its end time is still to
\* come (every token of SpecToken is played with an endTime)
C29_StoppedAtEndTime ==
    \A t \in Tokens :
        PlayingState(soundTokens[t]) => soundTokens[t].endTimer

\* the HEAD request of an "auto" play was answered with a size
Sized(resp) == ~resp.failed /\ resp.ok /\ resp.contentLength \notin {Null, NaN}

C31_VolumesAndRatesInRange ==
    /\ \A c \in Channels : volume[c] >= 0 /\ volume[c] <= 100
    /\ \A t \in Tokens : soundTokens[t].volume >= 0 /\ soundTokens[t].volume <= 100
    /\ \A t \in Tokens : soundTokens[t].rate > 0

\* C32: a fade is never both cancelled and finished, and once it is cancelled
\* or finished its completion state stays as it is; finish() on a cancelled
\* fade changes neither the token's volume nor the token's current fade
C32_FadeCompletesOnce ==
    [][ \A t \in Tokens : \A f \in DOMAIN soundTokens[t].fades :
          LET fd == soundTokens[t].fades[f]
              fd2 == soundTokens'[t].fades[f]
          IN  /\ ~(fd2.cancelled /\ fd2.finishedInternal)
              /\ ~IsRunning(fd) =>
                    /\ fd2.cancelled = fd.cancelled
                    /\ fd2.finishedInternal = fd.finishedInternal
              /\ (fd.cancelled /\ FadeFinish(t, f)) =>
                    /\ soundTokens'[t].volume = soundTokens[t].volume
                    /\ soundTokens'[t].currentFade = soundTokens[t].currentFade
                    /\ \A g \in DOMAIN soundTokens[t].fades :
                          g # f => soundTokens'[t].fades[g] = soundTokens[t].fades[g] ]_vars

\* C33: setVolume(v) on a token whose current fade is running leaves that fade
\* cancelled, not finished and resolved, the token without a current fade and
\* the stored volume at clamp(v); when the timer of a cancelled fade expires,
\* the stored volume and the fade's completion state stay as they are
C33_SetVolumeCancelsFade ==
    [][ \A t \in Tokens :
          LET tok == soundTokens[t]
              f == tok.currentFade
          IN  /\ \A v \in VolumeInputs :
                    (f # 0 /\ IsRunning(tok.fades[f]) /\ TokenSetVolume(t, v)) =>
                        /\ soundTokens'[t].fades[f].cancelled
                        /\ ~soundTokens'[t].fades[f].finishedInternal
                        /\ soundTokens'[t].fades[f].resolved
                        /\ soundTokens'[t].currentFade = 0
                        /\ soundTokens'[t].volume = Clamp(v)
              /\ \A g \in DOMAIN tok.fades :
                    (tok.fades[g].cancelled /\ FadeTimer(t, g)) =>
                        /\ soundTokens'[t].volume = tok.volume
                        /\ soundTokens'[t].currentFade = tok.currentFade
                        /\ soundTokens'[t].fades[g].cancelled
                        /\ soundTokens'[t].fades[g].finishedInternal = tok.fades[g].finishedInternal
                        /\ soundTokens'[t].fades[g].resolved ]_vars

\* the timer of a fade that setVolume cancelled has expired: the fade is
\* cancelled and not finished, and the volume is not the fade's target
C33_Witness ==
    \E t \in Tokens : \E f \in DOMAIN soundTokens[t].fades :
        /\ soundTokens[t].fades[f].cancelled
        /\ ~soundTokens[t].fades[f].finishedInternal
        /\ soundTokens[t].fades[f].timer = "fired"
        /\ soundTokens[t].currentFade = 0
        /\ soundTokens[t].volume # soundTokens[t].fades[f].endVolume
        /\ Len(soundTokens[t].fades) = 1

\* C34: on a token that has been stopped, the expiry of a fade timer or of the
\* end timer, and a continuation chained on a fade, change neither the stored
\* volume nor the output gain and emit no further 'stop'
C34_StaleWorkIsNoOp ==
    [][ \A t \in Tokens :
          ( /\ soundTokens[t].stopped > 0
            /\ \/ \E f \in DOMAIN soundTokens[t].fades : FadeTimer(t, f)
               \/ \E f \in DOMAIN soundTokens[t].fades : StopAfterFade(t, f)
               \/ EndTimer(t) )
          => /\ soundTokens'[t].volume = soundTokens[t].volume
             /\ soundTokens'[t].gain = soundTokens[t].gain
             /\ soundTokens'[t].stopped = soundTokens[t].stopped ]_vars

\* C35: when 'ended' is emitted, the listeners registered at that moment are
\* called once each in registration order, and afterwards a listener is gone
\* only if it was a one-shot listener or a callback called off() for it
C35_RemovalDuringDispatchIsSafe ==
    [][ \A t \in Tokens :
          SourceEnded(t) =>
              LET before == SelectSeq(soundTokens[t].listeners.ended, LAMBDA l : l.cb = "user")
                  after == soundTokens'[t].listeners.ended
                  called == SelectSeq(events', LAMBDA e : e[1] = "called")
              IN  /\ called = [i \in DOMAIN before |-> <<"called", before[i].id>>]
                  /\ \A i \in DOMAIN before :
                        before[i].once => ~Contains(after, before[i])
                  /\ \A i \in DOMAIN before :
                        ( /\ ~before[i].once
                          /\ \A j \in DOMAIN before : before[j].off # before[i].id )
                        => Contains(after, before[i]) ]_vars

\* the tokens attached to c, then those of its live children, child by child
\* in the order the children were created (channel ids count creations)
RECURSIVE AttachedBelow(_)
RECURSIVE AttachedBelowEach(_)
AttachedBelowEach(kids) ==
    IF kids = {} THEN <<>>
    ELSE LET d == CHOOSE k \in kids : \A j \in kids : k <= j
         IN  AttachedBelow(d) \o AttachedBelowEach(kids \ {d})

AttachedBelow(c) == tokens[c] \o AttachedBelowEach({ d \in Channels : LiveChild(c, d) })

\* C36: getTokens() on a live channel is the channel's attached tokens in
\* attachment order followed by the result of each live child in creation
\* order, holds every token once, and holds no token that was stopped or ended
C36_GetTokensIsAttachedTokens ==
    \A c \in LiveChannels :
        /\ getTokens(c) = AttachedBelow(c)
        /\ \A i, j \in DOMAIN getTokens(c) : getTokens(c)[i] = getTokens(c)[j] => i = j
        /\ \A i \in DOMAIN getTokens(c) : ~IsTerminal(soundTokens[getTokens(c)[i]])

\* the master channel has a token of its own and a live child with a token
\* that was created before the master's: getTokens(master) holds both
C36_Witness ==
    /\ ~removed[Master] /\ Len(tokens[Master]) = 1
    /\ \E d \in Channels : LiveChild(Master, d) /\ Len(tokens[d]) = 1
                             /\ tokens[d][1] < tokens[Master][1]
    /\ Len(getTokens(Master)) = 2

\* C37: while a buffer-backed token is playing or paused, getCurrentTime() is
\* the offset its source has reached: the start offset plus the time played
\* (a pause captures it, resume() restarts there, seek moves it), whatever the
\* audio clock showed at creation
C37_PositionIsOffsetPlusElapsed ==
    \A t \in Tokens :
        LET tok == soundTokens[t] IN
        (tok.kind = "buffer" /\ tok.stopped = 0 /\ (tok.isPlaying \/ tok.isPaused))
            => getCurrentTime(tok) = tok.position

\* C38: a play() call that is refused (session not ready or destroyed, a dead
\* CachedAudio) leaves the attached tokens of every channel, and every token,
\* as they were
C38_FailedPlayStopsNothing ==
    [][ \A c \in Channels :
          (result' \in {"destroyed", "notReady", "dead"} /\ PlayCall(c))
              => tokens' = tokens /\ soundTokens' = soundTokens ]_vars

\* C39: the refCount of a cache entry is the number of its tokens that have
\* neither been stopped nor ended; a play() that fails because its entry is
\* dead leaves every refCount as it was; and unload() leaves alive an entry
\* that a token which has neither been stopped nor ended is using
C39_RefCountCountsLiveTokens ==
    [][ /\ \A e \in Entries :
              alive[e] =>
                  refCount[e] = Cardinality({ t \in Tokens :
                                    /\ soundTokens[t].cachedAudioRef = e
                                    /\ ~IsTerminal(soundTokens[t]) })
        /\ (result' = "dead" /\ \/ \E c \in Channels : PlayCall(c)
                                \/ \E i \in DOMAIN calls : PlayAcquire(i))
              => refCount' = refCount
        /\ \A e \in Entries :
              ( /\ \E t \in Tokens : /\ soundTokens[t].cachedAudioRef = e
                                     /\ ~IsTerminal(soundTokens[t])
                /\ CachedAudioUnload(e) )
              => alive'[e] = alive[e] ]_vars

\* C40: while a token is muted its output gain is 0 and no ramp is scheduled
\* on its gain: setVolume and fade on a muted token store the volume only
C40_MutedTokenIsSilent ==
    \A t \in Tokens :
        soundTokens[t].isMuted =>
            soundTokens[t].gain = 0 /\ soundTokens[t].ramp = 0

=============================================================================
